---- MODULE Spec2Model ----
(***************************************************************************)
(* Model of the pw-web-app-tests suite: the tier classifier getTestType,   *)
(* the registration of the table-driven test units, and the bodies of the  *)
(* input-field and drag-and-drop units.                                    *)
(*                                                                         *)
(* The page under test is the environment: what it shows when it loads and *)
(* how it answers a submit or a drag is a free choice, and it changes only *)
(* in answer to an action of the unit.  A statement about a unit is        *)
(* therefore a statement about which pages let the unit pass.              *)
(*                                                                         *)
(* SpecReg  - loading a suite module: forEach over a case table            *)
(* SpecInput - one unit of the text, email or password suite               *)
(* SpecDrag - one unit of the box or image drag-and-drop suite             *)
(* SpecDropPoint - the drop point computed by a negative drag              *)
(* SpecAlert - one unit of the confirmation or prompt suite                *)
(* SpecAlertAny - the same for a row carrying any label                    *)
(* SpecChk - one unit of the checkbox suite, with its hooks                *)
(* SpecUnits - one unit of an input-field, alert or checkbox suite         *)
(* SpecWorkers - the units of a suite file spread over worker processes    *)
(* SpecBtn - one unit of the submit-button state suite                     *)
(* SpecLaunch - one run of the launcher script run_tests.sh                *)
(* SpecReporter - one call of get_bounding_box_info                        *)
(* SpecRegTables - loading a suite module with its case table as written   *)
(* SpecDragHidden - a drag-and-drop unit on a page that hides its target    *)
(***************************************************************************)
EXTENDS Integers, Sequences, FiniteSets, TLC

VARIABLES
    \* ---- suite definition (module load) ----
    table,        \* the case table iterated by forEach: rows [t_case, t_type]
    regIdx,       \* index of the row forEach is at
    registered,   \* test units registered so far: [row, title, tag]
    loadError,    \* error thrown while the module loads, or NoError
    loadPhase,    \* "loading" | "loaded" | "aborted"
    ran           \* rows whose test body the runner has started

regVars == <<table, regIdx, registered, loadError, loadPhase, ran>>

VARIABLES
    \* ---- one unit of an input-field suite (text, email, password) ----
    suite,              \* "text" | "email" | "passwd"
    tcase,              \* the table row the unit was generated from
    browserName,        \* the engine of the unit's project
    pc,                 \* the statement the body is at
    result_msg,         \* the body's binding of result_msg (reassigned for webkit)
    msgIdx,             \* index of the for-of loop over a list of messages
    verdict,            \* "running" | "passed" | "failed"
    \* ---- the page of that unit (the application under test) ----
    url,                \* path the page is at
    headingVisible,     \* the heading 'Input Field' is visible
    labelVisible,       \* the labelled control is visible
    fieldValue,         \* text the unit filled into the control
    visibleTexts,       \* texts t for which getByText(t) resolves to a visible element
    validationMessage   \* the control's native validationMessage

unitVars == <<suite, tcase, browserName, pc, result_msg, msgIdx, verdict>>
pageVars == <<url, headingVisible, labelVisible, fieldValue, visibleTexts,
              validationMessage>>
inputVars == <<unitVars, pageVars>>

VARIABLES
    \* ---- one unit of a drag-and-drop suite (boxes, images) ----
    dsuite,         \* "box" | "image"
    dcase,          \* the table row the unit was generated from
    dpc,            \* the statement the body is at
    dverdict,       \* "running" | "passed" | "failed"
    loopI,          \* the loop variable i of a loop-back sequence
    target,         \* target_x / target_y are defined (not undefined)
    events,         \* drags and assertions the body has performed, in order
    \* ---- the page of that unit ----
    durl,           \* path the page is at
    headingOk,      \* the h1 reads 'Drag-n-drop'
    dragLabelOk,    \* the draggable box reads 'Drag me'
    box1Visible,    \* #rect-droppable1 is visible
    dropBoxVisible, \* the drop target (#rect-droppable, #rect-droppable2) is visible
    imgLoc,         \* where the image is: "box1" | "box2" | "content"
    dropLabel,      \* the text of the drop target
    labelHistory    \* the texts the drop target has had since the page loaded

dunitVars == <<dsuite, dcase, dpc, dverdict, loopI, target, events>>
dpageVars == <<durl, headingOk, dragLabelOk, box1Visible, dropBoxVisible, imgLoc,
               dropLabel, labelHistory>>
dragVars == <<dunitVars, dpageVars>>

VARIABLES
    \* ---- the drop point of a negative drag (boxes, images) ----
    gpc,            \* the statement the negative branch is at
    drop_box_bb,    \* the result of drop_box.boundingBox(): a box or null
    target_x,       \* let target_x: number | undefined
    target_y,       \* let target_y: number | undefined
    dropPoint,      \* viewport point at which dragTo released the mouse
    \* ---- the layout of the page, in viewport coordinates ----
    dropRect,       \* the rectangle of the drop target
    dropShown,      \* the drop target is visible
    contentOrigin   \* the top-left corner of div.content

geomVars == <<gpc, drop_box_bb, target_x, target_y, dropPoint, dropRect, dropShown,
              contentOrigin>>

VARIABLES
    \* ---- one unit of an alert suite (confirmation, prompt) ----
    asuite,         \* "confirm" | "prompt"
    acase,          \* the table row the unit was generated from
    apc,            \* the statement the hook or the body is at
    averdict,       \* "running" | "passed" | "failed"
    handlers,       \* the listeners registered with page.on('dialog'), in order
    hpc,            \* the invocation of the listener: "idle" | "running" | "acted" | "done"
    invocations,    \* number of times a listener has been invoked
    alog,           \* lines written by console.log that tell the branch taken
    aevents,        \* what the hook, the body and the listener have done, in order
    \* ---- the page of that unit ----
    aurl,           \* path the page is at
    aheadingOk,     \* the h1 reads 'Alerts'
    btnVisible,     \* a.a-button is visible
    opensDialog,    \* a click on the button opens a dialog
    dialog,         \* "none" | "open" | "accepted" | "dismissed"
    acceptText,     \* the text handed to dialog.accept, or NoText
    resultPrefix,   \* the text of div#result in front of p#result-text
    resultDetail    \* the text of p#result-text

aunitVars == <<asuite, acase, apc, averdict, handlers, hpc, invocations, alog,
               aevents>>
apageVars == <<aurl, aheadingOk, btnVisible, opensDialog, dialog, acceptText,
               resultPrefix, resultDetail>>
alertVars == <<aunitVars, apageVars>>

VARIABLES
    \* ---- one unit of the checkbox suite ----
    ccase,          \* the table row the unit was generated from
    cpc,            \* the statement the hooks or the body are at
    cverdict,       \* "running" | "passed" | "failed"
    cIdx,           \* index of the checkbox or of the for-of loop the unit is at
    cevents,        \* what the hooks and the body have done, in order
    \* ---- the page of that unit ----
    curl,           \* path the page is at
    cheadingOk,     \* the h1 reads 'Checkboxes'
    visibleBoxes,   \* the checkboxes (1, 2, 3) that are visible
    submitVisible,  \* input[type="submit"] is visible
    checked,        \* the checkboxes that are checked
    chkPrefix,      \* the text of div#result in front of p#result-text
    chkDetail       \* the text of p#result-text

cunitVars == <<ccase, cpc, cverdict, cIdx, cevents>>
cpageVars == <<curl, cheadingOk, visibleBoxes, submitVisible, checked, chkPrefix,
               chkDetail>>
chkVars == <<cunitVars, cpageVars>>

VARIABLES
    \* ---- a run of one suite file by the worker processes of the runner ----
    wsuite,         \* the suite file: "alert" | "checkbox" | "text"
    wproject,       \* the project (engine) each worker process was started for
    pending,        \* the units (row, project) the runner has not handed out yet
    wcur,           \* the unit each worker is running, or NoUnit
    wpc,            \* each worker's position in the accesses of its unit
    modWriter,      \* per module instance: who last wrote the module-level locators
    rowWriter,      \* per module instance and row: who last wrote the row's result_msg
    lastRead        \* the latest read of such a variable: [reader, writer]

workerVars == <<wsuite, wproject, pending, wcur, wpc, modWriter, rowWriter, lastRead>>

VARIABLES
    \* ---- one unit of the submit-button state suite ----
    scase,          \* the table row the unit was generated from
    spc,            \* the statement the body is at
    sverdict,       \* "idle" | "running" | "passed" | "failed"
    sprog,          \* the statements of the row's branch still to run
    selected,       \* the option the unit selected last, or "none"
    sevents,        \* the selections, button assertions and clicks made
    \* ---- the page of that unit ----
    surl,           \* the path the page is at
    sheadingOk,     \* an h1 with the heading text is visible
    slabelOk,       \* a label with the label text is visible
    selectVisible,  \* select[name="select_state"] is visible
    sbtnVisible,    \* the submit input is visible
    optionText,     \* the text of the dropdown's checked option
    btnDisabled,    \* the submit input is disabled
    msgVisible      \* a p with the submitted message is visible

sunitVars == <<scase, spc, sverdict, sprog, selected, sevents>>
spageVars == <<surl, sheadingOk, slabelOk, selectVisible, sbtnVisible, optionText,
               btnDisabled, msgVisible>>
btnVars == <<sunitVars, spageVars>>

VARIABLES
    \* ---- one run of the launcher script run_tests.sh ----
    env,            \* what the script starts in: inherited PROJECT and WORKERS,
                    \* and the directories that exist
    opts,           \* the command line, option by option
    rest,           \* "$@": the arguments the parse loop has not shifted away
    lpc,            \* "parse" | "report" | "run" | "message" | "exited"
    sh,             \* the shell variables HEADLESS ... WORKERS
    NPX_CMD,        \* the runner command
    REPORT_DIR,     \* the report directory
    dirs,           \* the directories that exist
    ortoniConfig,   \* ./config_files/playwright.config_ortoni.ts, lines 7, 9, 12
    activeConfig,   \* ./playwright.config.ts
    runnerStatus,   \* <<the status of eval $NPX_CMD>>, empty before it ran
    output,         \* the message echoed after the run
    exitCode        \* <<the exit status of the script>>, empty while it runs

launchVars == <<env, opts, rest, lpc, sh, NPX_CMD, REPORT_DIR, dirs, ortoniConfig,
                activeConfig, runnerStatus, output, exitCode>>

VARIABLES
    \* ---- one call of get_bounding_box_info ----
    rcopy,            \* the copy called: "box suite" | "helper"
    rlabel,           \* the label argument
    relem,            \* what the locator argument matches on the page
    rpc,              \* the statement the call is at
    element_handler,  \* "unset" | "handle" | "null"
    element_bb,       \* the result of boundingBox()
    rlog,             \* the lines written by console.log
    rerror            \* the error the call threw to its caller, or NoError

reporterVars == <<rcopy, rlabel, relem, rpc, element_handler, element_bb, rlog,
                  rerror>>

lateVars == <<btnVars, launchVars, reporterVars>>

moreVars == <<geomVars, alertVars, chkVars, workerVars, lateVars>>

earlyVars == <<regVars, inputVars, dragVars, geomVars, alertVars, chkVars,
               workerVars>>

vars == <<regVars, inputVars, dragVars, moreVars>>

\* What an action of one part leaves alone in the others.
regFrame == <<inputVars, dragVars, moreVars>>
inputFrame == <<regVars, dragVars, moreVars>>
dragFrame == <<regVars, inputVars, moreVars>>
geomFrame == <<regVars, inputVars, dragVars, alertVars, chkVars, workerVars,
               lateVars>>
alertFrame == <<regVars, inputVars, dragVars, geomVars, chkVars, workerVars,
                lateVars>>
chkFrame == <<regVars, inputVars, dragVars, geomVars, alertVars, workerVars,
              lateVars>>
workerFrame == <<regVars, inputVars, dragVars, geomVars, alertVars, chkVars,
                 lateVars>>
btnFrame == <<earlyVars, launchVars, reporterVars>>
launchFrame == <<earlyVars, btnVars, reporterVars>>
reporterFrame == <<earlyVars, btnVars, launchVars>>

\* ------------------------------------------------------------------------
\* Bounds of the model
\* ------------------------------------------------------------------------
MaxRows == 2     \* rows of a drawn case table
MaxTiers == 2    \* labels of a drawn t_type array
MaxGrid == 2     \* largest grid coordinate of a drawn layout
GridStep == 5    \* pixels between two grid coordinates
MaxWorkers == 2  \* worker processes of a run

\* ------------------------------------------------------------------------
\* utils/test_type.ts, utils/helper.ts
\* ------------------------------------------------------------------------
Sanity == "sanity"
Smoke == "smoke"
Regression == "regression"

TestType == {Sanity, Smoke, Regression}

\* JavaScript values handed to getTestType: an array of strings, or a value
\* that is not an array (undefined, a bare string).
JsArray(items) == [kind |-> "array", items |-> items]
JsUndefined == [kind |-> "undefined", items |-> <<>>]
JsString(s) == [kind |-> "string", items |-> <<s>>]

IsArray(v) == v.kind = "array"

NoValue == "<no value>"
NoError == "<no error>"
ERR_NOT_ARRAY == "TypeError: t_type must be an array of strings"
ERR_EMPTY == "TypeError: t_type cannot be an empty array"

Returned(s) == [threw |-> FALSE, value |-> s, error |-> NoError]
Thrown(e) == [threw |-> TRUE, value |-> NoValue, error |-> e]

\* Array.prototype.join(''): the elements concatenated in index order.
RECURSIVE Join(_)
Join(parts) ==
    IF parts = <<>> THEN "" ELSE Head(parts) \o Join(Tail(parts))

\* t_type.map(type => `@${type}`): one element per element, same index.
MapTagDedup(items) ==
    LET keep == {i \in 1..Len(items) : \A j \in 1..(i-1) : items[j] # items[i]}
        RECURSIVE Build(_)
        Build(i) == IF i > Len(items) THEN <<>>
                    ELSE IF i \in keep THEN <<"@" \o items[i]>> \o Build(i + 1)
                    ELSE Build(i + 1)
    IN Build(1)

MapTag(items) == [i \in 1..Len(items) |-> "@" \o items[i]]

getTestTypeNoEmptyGuard(t_type) ==
    IF ~IsArray(t_type) THEN Thrown(ERR_NOT_ARRAY)
    ELSE Returned(Join(MapTag(t_type.items)))

getTestType(t_type) ==
    IF ~IsArray(t_type) THEN Thrown(ERR_NOT_ARRAY)
    ELSE IF Len(t_type.items) = 0 THEN Thrown(ERR_EMPTY)
    ELSE Returned(Join(MapTag(t_type.items)))

\* ------------------------------------------------------------------------
\* Suite definition: [rows].forEach(row => test(title, {tag: [getTestType(
\* row.t_type)]}, body)).  The arguments of test() are evaluated during the
\* iteration; the body is only stored and is run later by the runner.
\* ------------------------------------------------------------------------
TierInputs ==
    {JsUndefined, JsString(Sanity)}
      \cup {JsArray(s) : s \in UNION {[1..n -> TestType] : n \in 0..MaxTiers}}

Tables ==
    UNION {[1..n -> [t_case : {"case"}, t_type : TierInputs]] : n \in 1..MaxRows}

RegStart ==
    /\ regIdx = 1
    /\ registered = <<>>
    /\ loadError = NoError
    /\ loadPhase = "loading"
    /\ ran = {}

InputIdle ==
    /\ suite = "none"
    /\ tcase = <<>>
    /\ browserName = "none"
    /\ pc = "idle"
    /\ result_msg = JsUndefined
    /\ msgIdx = 0
    /\ verdict = "idle"
    /\ url = "about:blank"
    /\ headingVisible = FALSE
    /\ labelVisible = FALSE
    /\ fieldValue = ""
    /\ visibleTexts = {}
    /\ validationMessage = ""

RegIdle ==
    /\ table = <<>>
    /\ regIdx = 1
    /\ registered = <<>>
    /\ loadError = NoError
    /\ loadPhase = "idle"
    /\ ran = {}

DragIdle ==
    /\ dsuite = "none"
    /\ dcase = <<>>
    /\ dpc = "idle"
    /\ dverdict = "idle"
    /\ loopI = 0
    /\ target = FALSE
    /\ events = <<>>
    /\ durl = "about:blank"
    /\ headingOk = FALSE
    /\ dragLabelOk = FALSE
    /\ box1Visible = FALSE
    /\ dropBoxVisible = FALSE
    /\ imgLoc = "none"
    /\ dropLabel = ""
    /\ labelHistory = <<>>

\* A number, the value undefined, a bounding box, the value null.
Number(n) == [defined |-> TRUE, n |-> n]
Undefined == [defined |-> FALSE, n |-> 0]
Box(x, y, w, h) == [isNull |-> FALSE, x |-> x, y |-> y, width |-> w, height |-> h]
Null == [isNull |-> TRUE, x |-> 0, y |-> 0, width |-> 0, height |-> 0]
Point(x, y) == [released |-> TRUE, x |-> x, y |-> y]
NoPoint == [released |-> FALSE, x |-> 0, y |-> 0]

GeomIdle ==
    /\ gpc = "idle"
    /\ drop_box_bb = Null
    /\ target_x = Undefined
    /\ target_y = Undefined
    /\ dropPoint = NoPoint
    /\ dropRect = Null
    /\ dropShown = FALSE
    /\ contentOrigin = NoPoint

NoText == "<no text>"

AlertIdle ==
    /\ asuite = "none"
    /\ acase = <<>>
    /\ apc = "idle"
    /\ averdict = "idle"
    /\ handlers = <<>>
    /\ hpc = "idle"
    /\ invocations = 0
    /\ alog = <<>>
    /\ aevents = <<>>
    /\ aurl = "about:blank"
    /\ aheadingOk = FALSE
    /\ btnVisible = FALSE
    /\ opensDialog = FALSE
    /\ dialog = "none"
    /\ acceptText = NoText
    /\ resultPrefix = ""
    /\ resultDetail = ""

ChkIdle ==
    /\ ccase = <<>>
    /\ cpc = "idle"
    /\ cverdict = "idle"
    /\ cIdx = 0
    /\ cevents = <<>>
    /\ curl = "about:blank"
    /\ cheadingOk = FALSE
    /\ visibleBoxes = {}
    /\ submitVisible = FALSE
    /\ checked = {}
    /\ chkPrefix = ""
    /\ chkDetail = ""

WorkerIdle ==
    /\ wsuite = "none"
    /\ wproject = <<>>
    /\ pending = {}
    /\ wcur = <<>>
    /\ wpc = <<>>
    /\ modWriter = <<>>
    /\ rowWriter = <<>>
    /\ lastRead = <<>>

BtnIdle ==
    /\ scase = <<>>
    /\ spc = "idle"
    /\ sverdict = "idle"
    /\ sprog = <<>>
    /\ selected = "none"
    /\ sevents = <<>>
    /\ surl = "about:blank"
    /\ sheadingOk = FALSE
    /\ slabelOk = FALSE
    /\ selectVisible = FALSE
    /\ sbtnVisible = FALSE
    /\ optionText = ""
    /\ btnDisabled = FALSE
    /\ msgVisible = FALSE

LaunchIdle ==
    /\ env = <<>>
    /\ opts = <<>>
    /\ rest = <<>>
    /\ lpc = "idle"
    /\ sh = <<>>
    /\ NPX_CMD = ""
    /\ REPORT_DIR = ""
    /\ dirs = {}
    /\ ortoniConfig = <<>>
    /\ activeConfig = <<>>
    /\ runnerStatus = <<>>
    /\ output = ""
    /\ exitCode = <<>>

ReporterIdle ==
    /\ rcopy = "none"
    /\ rlabel = ""
    /\ relem = <<>>
    /\ rpc = "idle"
    /\ element_handler = "unset"
    /\ element_bb = Null
    /\ rlog = <<>>
    /\ rerror = NoError

LateIdle == BtnIdle /\ LaunchIdle /\ ReporterIdle

EarlyIdle ==
    /\ RegIdle
    /\ InputIdle
    /\ DragIdle
    /\ GeomIdle
    /\ AlertIdle
    /\ ChkIdle
    /\ WorkerIdle

MoreIdle == GeomIdle /\ AlertIdle /\ ChkIdle /\ WorkerIdle /\ LateIdle

InitReg ==
    /\ table \in Tables
    /\ RegStart
    /\ MoreIdle
    /\ InputIdle
    /\ DragIdle

\* An exception thrown by an argument expression is not caught anywhere in
\* the module: it unwinds the forEach callback and the module load.
UnwindsSwallowed(res) == FALSE

Unwinds(res) == res.threw

\* One iteration of forEach: evaluate getTestType(t_type), then test(...).
RegisterRow ==
    /\ loadPhase = "loading"
    /\ regIdx <= Len(table)
    /\ LET res == getTestType(table[regIdx].t_type) IN
         IF Unwinds(res)
         THEN /\ loadError' = res.error
              /\ loadPhase' = "aborted"
              /\ UNCHANGED <<regIdx, registered>>
         ELSE /\ registered' = Append(registered,
                     [row |-> regIdx, title |-> table[regIdx].t_case,
                      tag |-> res.value])
              /\ regIdx' = regIdx + 1
              /\ UNCHANGED <<loadError, loadPhase>>
    /\ UNCHANGED <<table, ran, regFrame>>

\* forEach has visited every row: the module is loaded.
FinishLoad ==
    /\ loadPhase = "loading"
    /\ regIdx > Len(table)
    /\ loadPhase' = "loaded"
    /\ UNCHANGED <<table, regIdx, registered, loadError, ran, regFrame>>

\* The runner starts the body of a registered unit.  Bodies are stored by
\* test() and called by the runner after the module has been loaded; a
\* module whose load threw has no units to run.
RunBody ==
    /\ loadPhase = "loaded"
    /\ \E k \in 1..Len(registered) :
         /\ registered[k].row \notin ran
         /\ ran' = ran \cup {registered[k].row}
    /\ UNCHANGED <<table, regIdx, registered, loadError, loadPhase, regFrame>>

NextReg == RegisterRow \/ FinishLoad \/ RunBody

SpecReg == InitReg /\ [][NextReg]_vars

\* ------------------------------------------------------------------------
\* Claims about getTestType and the registration
\* ------------------------------------------------------------------------
RECURSIVE TagOffset(_, _)
\* Number of characters before the i-th tag in the expected string.
TagOffset(items, i) ==
    IF i = 1 THEN 0 ELSE TagOffset(items, i - 1) + 1 + Len(items[i - 1])

TagLength(items) == TagOffset(items, Len(items) + 1)

\* The string s holds, at the position of each element of items and in the
\* order of items, the character '@' followed by that element, and nothing
\* else.
OneTagPerElement(s, items) ==
    /\ Len(s) = TagLength(items)
    /\ \A i \in 1..Len(items) :
         /\ SubSeq(s, TagOffset(items, i) + 1, TagOffset(items, i) + 1) = "@"
         /\ SubSeq(s, TagOffset(items, i) + 2,
                      TagOffset(items, i) + 1 + Len(items[i])) = items[i]

\* C1: for every non-empty array t_type, the tag string registered for the
\* row is '@' + element for each element of the array, in array order, one
\* tag per element, duplicates kept, nothing dropped or reordered.
C1_TagPerElement ==
    \A k \in 1..Len(registered) :
        LET t == table[registered[k].row].t_type IN
          /\ IsArray(t) /\ Len(t.items) > 0
          /\ OneTagPerElement(registered[k].tag, t.items)

C1_Witness ==
    \E k \in 1..Len(registered) :
        /\ table[registered[k].row].t_type = JsArray(<<Smoke, Smoke>>)
        /\ registered[k].tag = "@smoke@smoke"

\* C2: getTestType raises an error and returns no tag string when called
\* with an empty array and when called with a value that is not an array.
TierOk(t) == IsArray(t) /\ Len(t.items) > 0

C2_RaisesOnBadInput ==
    \A i \in 1..Len(table) :
        LET t == table[i].t_type IN
          ~TierOk(t) =>
             /\ \A k \in 1..Len(registered) : registered[k].row # i
             /\ (regIdx = i /\ loadPhase # "loading") =>
                   /\ loadPhase = "aborted"
                   /\ loadError = (IF IsArray(t) THEN ERR_EMPTY ELSE ERR_NOT_ARRAY)
             /\ regIdx <= i

C2_Witness ==
    /\ loadPhase = "aborted"
    /\ table[regIdx].t_type = JsArray(<<>>)
    /\ loadError = ERR_EMPTY

\* C3: the tier precondition error is raised while the table is iterated:
\* a row with an empty or malformed tier set aborts the registration at that
\* row, rows after it are not registered, and no test body runs.
C3_RaisedAtDefinitionTime ==
    /\ (ran # {}) => (loadPhase = "loaded" /\ \A i \in 1..Len(table) : TierOk(table[i].t_type))
    /\ (\E i \in 1..Len(table) : ~TierOk(table[i].t_type)) =>
          /\ ran = {}
          /\ loadPhase \in {"loading", "aborted"}
          /\ \A k \in 1..Len(registered) :
                \A i \in 1..registered[k].row : TierOk(table[i].t_type)
    /\ loadPhase = "aborted" =>
          /\ ~TierOk(table[regIdx].t_type)
          /\ Len(registered) = regIdx - 1
          /\ loadError # NoError

C3_Witness ==
    /\ loadPhase = "aborted"
    /\ regIdx = 2
    /\ Len(registered) = 1
    /\ ran = {}

\* ------------------------------------------------------------------------
\* Input-field suites: the case tables
\* ------------------------------------------------------------------------
TXT_MSG_VALID == "Your input was:"
TXT_MSG_MANDATORY == "Please fill out this field."
TXT_MSG_MANDATORY_WEBKIT == "Fill out this field"
EMAIL_MSG_INVALID == "Enter a valid email address."
PASSWD_MSG_INVALID == "Low password complexity"
MSG_MIN_LEN == "Please enter 2 or more characters"
MSG_MAX_LEN == "Please enter no more than 25 characters"
MSG_PATTERN == "Enter a valid string consisting of letters, numbers, underscores or hyphens"

Row(c, t, i, v, m) ==
    [t_case |-> c, t_type |-> t, input_str |-> i, is_valid |-> v, result_msg |-> m]

AllTiers == <<Sanity, Smoke, Regression>>
SmokeRegr == <<Smoke, Regression>>
RegrOnly == <<Regression>>

TextCases == <<
    Row("Valid string - normal chars, hypens and underscores", AllTiers,
        "This_Is-A_validString-123", TRUE, JsString(TXT_MSG_VALID)),
    Row("Valid string - normal chars", RegrOnly,
        "ThisIsValidString123", TRUE, JsString(TXT_MSG_VALID)),
    Row("Valid string - with underscores", RegrOnly,
        "This_is_valid_string_123", TRUE, JsString(TXT_MSG_VALID)),
    Row("Valid string - with hyphens", RegrOnly,
        "This-is-valid-string-123", TRUE, JsString(TXT_MSG_VALID)),
    Row("Invalid string - empty", AllTiers,
        "", FALSE, JsString(TXT_MSG_MANDATORY)),
    Row("Invalid string - single character", SmokeRegr,
        "a", FALSE, JsString(MSG_MIN_LEN)),
    Row("Invalid string - single and special character", SmokeRegr,
        "@", FALSE, JsArray(<<MSG_MIN_LEN, MSG_PATTERN>>)),
    Row("Invalid string with whitespaces", SmokeRegr,
        "Invalid string w spaces", FALSE, JsString(MSG_PATTERN)),
    Row("Invalid string with special characters", SmokeRegr,
        "Invalid_string_w_special$#@!", FALSE, JsString(MSG_PATTERN)),
    Row("Invalid string exceeds max chars", SmokeRegr,
        "Invalid_string_0123456789-ExceedsMaxChars", FALSE, JsString(MSG_MAX_LEN)),
    Row("Invalid string exceeds max chars and contain special chars", SmokeRegr,
        "Invalid_string_speci@l_chars!_&_ExceedsMaxChars", FALSE,
        JsArray(<<MSG_MAX_LEN, MSG_PATTERN>>)) >>

EmailCases == <<
    Row("Valid email - normal characters", AllTiers,
        "josephnepomucin@icloud.com", TRUE, JsString(TXT_MSG_VALID)),
    Row("Valid email - normal characters and localhost domain", SmokeRegr,
        "josephnepomucin@localhost", TRUE, JsString(TXT_MSG_VALID)),
    Row("Valid email - normal characters and hypen in domain", SmokeRegr,
        "josephnepomucin@i-cloud.com", TRUE, JsString(TXT_MSG_VALID)),
    Row("Valid email - normal chars with dots", RegrOnly,
        "joseph.nepomucin@icloud.com", TRUE, JsString(TXT_MSG_VALID)),
    Row("Valid email - normal chars with dots and underscore", RegrOnly,
        "joseph.nepomucin_2025@icloud.com", TRUE, JsString(TXT_MSG_VALID)),
    Row("Valid email - normal chars with dots, underscore and hypen", RegrOnly,
        "j-seph.nepomucin_2025@icloud.com", TRUE, JsString(TXT_MSG_VALID)),
    Row("Valid email - normal chars with dots, underscore, hypen and special char", RegrOnly,
        "j-seph.nepomucin_2025_!@icloud.com", TRUE, JsString(TXT_MSG_VALID)),
    Row("Invalid email - empty", AllTiers,
        "", FALSE, JsString(TXT_MSG_MANDATORY)),
    Row("Invalid email - single character", AllTiers,
        "a", FALSE, JsString(EMAIL_MSG_INVALID)),
    Row("Invalid email - single and special character", SmokeRegr,
        "@", FALSE, JsString(EMAIL_MSG_INVALID)),
    Row("Invalid email with whitespaces", SmokeRegr,
        "joseph nepomucin @ icloud . com", FALSE, JsString(EMAIL_MSG_INVALID)),
    Row("Invalid email with special characters", SmokeRegr,
        "joseph!nepomucin@ic!loud.com", FALSE, JsString(EMAIL_MSG_INVALID)),
    Row("Invalid email with double @ symbol", SmokeRegr,
        "josephnepomucin@@icloud.com", FALSE, JsString(EMAIL_MSG_INVALID)),
    Row("Valid email - normal characters and underscore in domain", SmokeRegr,
        "josephnepomucin@i_cloud.com", FALSE, JsString(EMAIL_MSG_INVALID)) >>

PasswdCases == <<
    Row("Valid password - short 8 chars only", AllTiers,
        "P@ssw0rd", TRUE, JsString(TXT_MSG_VALID)),
    Row("Valid password - long", RegrOnly,
        "P1e@seLetMeIn12345!^", TRUE, JsString(TXT_MSG_VALID)),
    Row("Invalid email - empty", AllTiers,
        "", FALSE, JsString(TXT_MSG_MANDATORY)),
    Row("Invalid email - less than 8 chars", SmokeRegr,
        "P@sw0rd", FALSE, JsString(PASSWD_MSG_INVALID)),
    Row("Invalid email - no digit", SmokeRegr,
        "P@ssword_nodigit", FALSE, JsString(PASSWD_MSG_INVALID)),
    Row("Invalid email - no uppercase character", SmokeRegr,
        "p@ssw0rd_no_upcase_char", FALSE, JsString(PASSWD_MSG_INVALID)),
    Row("Invalid email - no lowercase character", SmokeRegr,
        "P@SSW0RD_NO_LOWCASE_CHAR", FALSE, JsString(PASSWD_MSG_INVALID)),
    Row("Invalid email - no special character", SmokeRegr,
        "PassW0RDnoSpecialChar", FALSE, JsString(PASSWD_MSG_INVALID)) >>

InputSuites == {"text", "email", "passwd"}

Cases(s) ==
    CASE s = "text" -> TextCases
      [] s = "email" -> EmailCases
      [] s = "passwd" -> PasswdCases

Path(s) ==
    CASE s = "text" -> "/elements/input/simple"
      [] s = "email" -> "/elements/input/email"
      [] s = "passwd" -> "/elements/input/passwd"

\* The projects of playwright.config.ts.
Browsers == {"chromium", "firefox", "webkit"}

\* The orders in which a row's list of messages can be written in the table.
Reorderings(list) ==
    {[i \in 1..Len(list) |-> list[p[i]]] :
        p \in {q \in [1..Len(list) -> 1..Len(list)] :
                 \A a, b \in 1..Len(list) : a # b => q[a] # q[b]}}

RowVariants(r) ==
    IF IsArray(r.result_msg)
    THEN {[r EXCEPT !.result_msg = JsArray(l)] : l \in Reorderings(r.result_msg.items)}
    ELSE {r}

Items(v) == {v.items[i] : i \in 1..Len(v.items)}

\* Texts the page of a row may show after the submit: the messages the row
\* expects, the success message and the input (getByText is not called with
\* any other text).
PageTexts(r) ==
    Items(r.result_msg) \cup {TXT_MSG_VALID} \cup
      (IF r.input_str = "" THEN {} ELSE {r.input_str})

NativeMessages == {"", TXT_MSG_MANDATORY, TXT_MSG_MANDATORY_WEBKIT}

\* ------------------------------------------------------------------------
\* Input-field suites: the body of one unit
\* ------------------------------------------------------------------------
InitInput ==
    /\ RegIdle
    /\ MoreIdle
    /\ DragIdle
    /\ suite \in InputSuites
    /\ browserName \in Browsers
    /\ tcase \in UNION {RowVariants(Cases(suite)[i]) : i \in 1..Len(Cases(suite))}
    /\ result_msg = tcase.result_msg
    /\ pc = "goto"
    /\ msgIdx = 0
    /\ verdict = "running"
    /\ url = "about:blank"
    /\ headingVisible = FALSE
    /\ labelVisible = FALSE
    /\ fieldValue = ""
    /\ visibleTexts = {}
    /\ validationMessage = ""

\* A failed expect() throws: the body ends and the unit fails.
Fail ==
    /\ verdict' = "failed"
    /\ pc' = "done"

Pass ==
    /\ verdict' = "passed"
    /\ pc' = "done"

\* await page.goto(path): the page that loads is the application's.
Goto ==
    /\ pc = "goto"
    /\ url' = Path(suite)
    /\ headingVisible' \in BOOLEAN
    /\ labelVisible' \in BOOLEAN
    /\ pc' = "expectHeading"
    /\ UNCHANGED <<suite, tcase, browserName, result_msg, msgIdx, verdict,
                   fieldValue, visibleTexts, validationMessage, inputFrame>>

\* await expect(page.getByRole('heading', ...)).toBeVisible()
ExpectHeading ==
    /\ pc = "expectHeading"
    /\ IF headingVisible
       THEN pc' = "expectLabel" /\ UNCHANGED verdict
       ELSE Fail
    /\ UNCHANGED <<suite, tcase, browserName, result_msg, msgIdx, pageVars, inputFrame>>

\* await expect(page.getByLabel(TXT_LABEL)).toBeVisible()
ExpectLabel ==
    /\ pc = "expectLabel"
    /\ IF labelVisible
       THEN pc' = "fill" /\ UNCHANGED verdict
       ELSE Fail
    /\ UNCHANGED <<suite, tcase, browserName, result_msg, msgIdx, pageVars, inputFrame>>

\* await page.getByRole('textbox', ...).fill(input)
Fill ==
    /\ pc = "fill"
    /\ fieldValue' = tcase.input_str
    /\ pc' = "pressEnter"
    /\ UNCHANGED <<suite, tcase, browserName, result_msg, msgIdx, verdict, url,
                   headingVisible, labelVisible, visibleTexts, validationMessage,
                   inputFrame>>

\* await page.keyboard.press('Enter'): the form is submitted and the page
\* answers; what it shows is the application's and the engine's choice.
PressEnter ==
    /\ pc = "pressEnter"
    /\ visibleTexts' \in SUBSET PageTexts(tcase)
    /\ validationMessage' \in NativeMessages
    /\ pc' = "verify"
    /\ UNCHANGED <<suite, tcase, browserName, result_msg, msgIdx, verdict, url,
                   headingVisible, labelVisible, fieldValue, inputFrame>>

\* Only the text suite tests Array.isArray(result_msg) first.
HasListBranch(s) == s = "text"

\* The if / else-if / else of the step 'Verify result message.'
VerifyBranch ==
    /\ pc = "verify"
    /\ IF HasListBranch(suite) /\ IsArray(result_msg)
       THEN pc' = "forMsg" /\ msgIdx' = 1
       ELSE IF tcase.input_str = ""
       THEN pc' = "native" /\ UNCHANGED msgIdx
       ELSE pc' = "expectMsg" /\ UNCHANGED msgIdx
    /\ UNCHANGED <<suite, tcase, browserName, result_msg, verdict, pageVars, inputFrame>>

\* expect(page.getByText(msg)).toBeVisible() on the page as it is now.
MsgVisibleUnchecked(msg) == TRUE

MsgVisible(msg) == msg \in visibleTexts

\* for (const msg of result_msg): the loop ends after the last element.
ForOfDoneAfterFirst(i, list) == i > 1

ForOfDone(i, list) == i > Len(list)

\* One iteration of the for-of loop, or its exit.
ForMsg ==
    /\ pc = "forMsg"
    /\ IF ForOfDone(msgIdx, result_msg.items)
       THEN pc' = "echo" /\ UNCHANGED <<msgIdx, verdict>>
       ELSE IF MsgVisible(result_msg.items[msgIdx])
       THEN msgIdx' = msgIdx + 1 /\ UNCHANGED <<pc, verdict>>
       ELSE Fail /\ UNCHANGED msgIdx
    /\ UNCHANGED <<suite, tcase, browserName, result_msg, pageVars, inputFrame>>

\* if (browserName === 'webkit') { result_msg = TXT_MSG_MANDATORY_WEBKIT; }
NativeExpectedAnyEngine(browser, msg) == JsString(TXT_MSG_MANDATORY_WEBKIT)

NativeExpected(browser, msg) ==
    IF browser = "webkit" THEN JsString(TXT_MSG_MANDATORY_WEBKIT) ELSE msg

NativeReassign ==
    /\ pc = "native"
    /\ result_msg' = NativeExpected(browserName, result_msg)
    /\ pc' = "expectNative"
    /\ UNCHANGED <<suite, tcase, browserName, msgIdx, verdict, pageVars, inputFrame>>

\* expect(validationMessage).toBe(result_msg): strict equality of strings.
ExpectNative ==
    /\ pc = "expectNative"
    /\ IF JsString(validationMessage) = result_msg
       THEN pc' = "echo" /\ UNCHANGED verdict
       ELSE Fail
    /\ UNCHANGED <<suite, tcase, browserName, result_msg, msgIdx, pageVars, inputFrame>>

\* await expect(page.getByText(result_msg)).toBeVisible()
ExpectMsg ==
    /\ pc = "expectMsg"
    /\ IF MsgVisible(result_msg.items[1])
       THEN pc' = "echo" /\ UNCHANGED verdict
       ELSE Fail
    /\ UNCHANGED <<suite, tcase, browserName, result_msg, msgIdx, pageVars, inputFrame>>

\* if (is_valid) { await expect(page.getByText(input)).toBeVisible(); }
EchoNever(r) == FALSE

EchoRequired(r) == r.is_valid

ExpectEcho ==
    /\ pc = "echo"
    /\ IF EchoRequired(tcase) /\ tcase.input_str \notin visibleTexts
       THEN Fail
       ELSE Pass
    /\ UNCHANGED <<suite, tcase, browserName, result_msg, msgIdx, pageVars, inputFrame>>

NextInput ==
    \/ Goto \/ ExpectHeading \/ ExpectLabel \/ Fill \/ PressEnter
    \/ VerifyBranch \/ ForMsg \/ NativeReassign \/ ExpectNative \/ ExpectMsg
    \/ ExpectEcho

SpecInput == InitInput /\ [][NextInput]_vars

\* ------------------------------------------------------------------------
\* Claims about the input-field units
\* ------------------------------------------------------------------------
Submitted == pc \in {"verify", "forMsg", "native", "expectNative", "expectMsg",
                     "echo", "done"} /\ fieldValue = tcase.input_str

\* C4: a unit of a valid-input case passes only if, after fill and Enter,
\* both the success message 'Your input was:' and the literal input string
\* are visible on the page.
C4_ValidPassOnlyIfEchoed ==
    (suite \in InputSuites /\ tcase.is_valid /\ verdict = "passed") =>
        /\ Submitted
        /\ TXT_MSG_VALID \in visibleTexts
        /\ tcase.input_str \in visibleTexts

C4_Witness ==
    /\ suite = "passwd" /\ tcase.is_valid /\ verdict = "passed"
    /\ visibleTexts = {TXT_MSG_VALID, "P@ssw0rd"}

\* The expected outcome of an invalid-input row was observed: every message
\* of its list is visible, or the native required-field message of the
\* engine is the control's validationMessage (empty input), or the single
\* message is visible.
ExpectedNative ==
    IF browserName = "webkit" THEN TXT_MSG_MANDATORY_WEBKIT ELSE TXT_MSG_MANDATORY

ExpectedObserved ==
    IF IsArray(tcase.result_msg)
    THEN Items(tcase.result_msg) \subseteq visibleTexts
    ELSE IF tcase.input_str = ""
    THEN validationMessage = ExpectedNative
    ELSE tcase.result_msg.items[1] \in visibleTexts

\* The page shows the input as a successful submission.
EchoedAsSuccessful ==
    /\ TXT_MSG_VALID \in visibleTexts
    /\ tcase.input_str = "" \/ tcase.input_str \in visibleTexts

\* C5 (as stated): a unit of an invalid-input case passes only if the
\* expected message (every message of its list) is visible and the input is
\* not echoed back as a successful submission.
C5_InvalidPassOnlyIfNotEchoed ==
    (suite \in InputSuites /\ ~tcase.is_valid /\ verdict = "passed") =>
        /\ ExpectedObserved
        /\ ~EchoedAsSuccessful

\* C5 (amended): a unit of an invalid-input case passes only if the expected
\* message (every message of its list; for the empty input the engine's
\* native message as the control's validationMessage) is observed after the
\* submit; the unit makes no assertion about the input not being echoed.
C5_InvalidPassOnlyIfMessage ==
    (suite \in InputSuites /\ ~tcase.is_valid /\ verdict = "passed") =>
        /\ Submitted
        /\ ExpectedObserved

C5_Witness ==
    /\ suite = "email" /\ ~tcase.is_valid /\ verdict = "passed"
    /\ tcase.input_str = "josephnepomucin@@icloud.com"
    /\ EMAIL_MSG_INVALID \in visibleTexts
    /\ EchoedAsSuccessful

\* C6: for an empty-string submission the expected native message is
\* 'Fill out this field' on webkit and 'Please fill out this field.' on every
\* other engine, and the unit passes exactly when the control's
\* validationMessage equals it; for a non-empty input the expected message
\* is the row's, whatever the engine.
C6_NativeMessagePerEngine ==
    suite \in InputSuites =>
        /\ (tcase.input_str = "" /\ pc \in {"expectNative", "echo", "done"}
              /\ headingVisible /\ labelVisible) =>
              /\ result_msg = JsString(ExpectedNative)
              /\ (browserName = "webkit") <=> (result_msg = JsString("Fill out this field"))
              /\ (browserName # "webkit") <=> (result_msg = JsString("Please fill out this field."))
              /\ (pc = "done") => ((verdict = "passed") <=> (validationMessage = ExpectedNative))
        /\ (tcase.input_str # "") => result_msg = tcase.result_msg

C6_Witness ==
    /\ suite = "text" /\ tcase.input_str = "" /\ browserName = "webkit"
    /\ verdict = "passed"
    /\ validationMessage = TXT_MSG_MANDATORY_WEBKIT

\* C7: when the expected outcome is a list of messages, the unit asserts the
\* visibility of every message of the list, and whatever the order of the
\* list it passes exactly when all of them are visible.
C7_ListVerdictOrderFree ==
    (suite \in InputSuites /\ IsArray(tcase.result_msg) /\ pc = "done"
       /\ headingVisible /\ labelVisible) =>
        ((verdict = "passed") <=> (Items(tcase.result_msg) \subseteq visibleTexts))

C7_Witness ==
    /\ suite = "text" /\ pc = "done" /\ verdict = "passed"
    /\ tcase.result_msg = JsArray(<<MSG_PATTERN, MSG_MIN_LEN>>)
    /\ {MSG_PATTERN, MSG_MIN_LEN} \subseteq visibleTexts

\* ------------------------------------------------------------------------
\* Drag-and-drop suites: the case tables
\* ------------------------------------------------------------------------
LABEL_HEADING == "Drag-n-drop"
LABEL_DRAG_BOX == "Drag me"
LABEL_DROP_BOX == "Drop here"
LABEL_BOX_DROPPED == "Dropped!"

DRow(c, t, n, l, p, e) ==
    [t_case |-> c, t_type |-> t, repeat |-> n, is_loop_back |-> l,
     is_positive |-> p, expected_drop_box_txt |-> e]

\* The rows of the box suite have no repeat / is_loop_back fields.
BoxCases == <<
    DRow("Drag-me inside Drop-here", AllTiers, 0, FALSE, TRUE, LABEL_BOX_DROPPED),
    DRow("Drag-me outside Drop-here", SmokeRegr, 0, FALSE, FALSE, LABEL_DROP_BOX) >>

ImageCases == <<
    DRow("From Box_1->Box_2", AllTiers, 0, FALSE, TRUE, LABEL_BOX_DROPPED),
    DRow("From Box_1->Box_2->Box_1", AllTiers, 0, TRUE, TRUE, LABEL_BOX_DROPPED),
    DRow("From Box_1->Box_2->Box_1 (1x loop back)", SmokeRegr, 1, TRUE, TRUE,
         LABEL_BOX_DROPPED),
    DRow("From Box_1->Box_2->Box_1 (2x loop back)", RegrOnly, 2, TRUE, TRUE,
         LABEL_BOX_DROPPED),
    DRow("From Box_1-> outside Box_2", AllTiers, 0, FALSE, FALSE, ""),
    DRow("From Box_1-> outside Box_2->Box_1", AllTiers, 0, TRUE, FALSE, ""),
    DRow("From Box_1-> outside Box_2->Box_1 (1x loop back)", SmokeRegr, 1, TRUE, FALSE, ""),
    DRow("From Box_1-> outside Box_2->Box_1 (2x loop back)", RegrOnly, 2, TRUE, FALSE, "") >>

DragSuites == {"box", "image"}

DCases(s) == IF s = "box" THEN BoxCases ELSE ImageCases

DPath(s) ==
    IF s = "box" THEN "/elements/dragndrop/boxes" ELSE "/elements/dragndrop/images"

\* Texts the drop target can show: the box suite's #text-droppable, the
\* image suite's #rect-droppable2 (empty while it holds no image).
DropLabels == {LABEL_DROP_BOX, LABEL_BOX_DROPPED, ""}

\* Places of the image: in #rect-droppable1, in #rect-droppable2, or in
\* div.content outside both (the two boxes lie inside div.content).
ImgLocs == {"box1", "box2", "content"}

\* ------------------------------------------------------------------------
\* Drag-and-drop suites: the body of one unit
\* ------------------------------------------------------------------------
InitDrag ==
    /\ RegIdle
    /\ MoreIdle
    /\ InputIdle
    /\ dsuite \in DragSuites
    /\ dcase \in {DCases(dsuite)[i] : i \in 1..Len(DCases(dsuite))}
    /\ dpc = "goto"
    /\ dverdict = "running"
    /\ loopI = 0
    /\ target = FALSE
    /\ events = <<>>
    /\ durl = "about:blank"
    /\ headingOk = FALSE
    /\ dragLabelOk = FALSE
    /\ box1Visible = FALSE
    /\ dropBoxVisible = FALSE
    /\ imgLoc = "none"
    /\ dropLabel = ""
    /\ labelHistory = <<>>

DFail ==
    /\ dverdict' = "failed"
    /\ dpc' = "done"

DPass ==
    /\ dverdict' = "passed"
    /\ dpc' = "done"

\* The page after a drag: where the image is and what the drop target reads
\* are the application's answer.
PageAfterDrag ==
    /\ dropLabel' \in DropLabels
    /\ labelHistory' = IF dropLabel' = dropLabel THEN labelHistory
                       ELSE Append(labelHistory, dropLabel')
    /\ imgLoc' \in (IF dsuite = "image" THEN ImgLocs ELSE {imgLoc})

\* await page.goto(path)
DGoto ==
    /\ dpc = "goto"
    /\ durl' = DPath(dsuite)
    /\ headingOk' \in BOOLEAN
    /\ dropBoxVisible' \in BOOLEAN
    /\ dropLabel' \in DropLabels
    /\ labelHistory' = <<dropLabel'>>
    /\ IF dsuite = "box"
       THEN /\ dragLabelOk' \in BOOLEAN
            /\ box1Visible' = FALSE
            /\ imgLoc' = "none"
       ELSE /\ dragLabelOk' = FALSE
            /\ box1Visible' \in BOOLEAN
            /\ imgLoc' \in ImgLocs
    /\ dpc' = "expectHeading"
    /\ UNCHANGED <<dsuite, dcase, dverdict, loopI, target, events, dragFrame>>

\* await expect(page.locator('h1')).toHaveText(LABEL_HEADING)
DExpectHeading ==
    /\ dpc = "expectHeading"
    /\ IF headingOk
       THEN dpc' = (IF dsuite = "box" THEN "expectDropText" ELSE "expectBox1")
            /\ UNCHANGED dverdict
       ELSE DFail
    /\ UNCHANGED <<dsuite, dcase, loopI, target, events, dpageVars, dragFrame>>

\* box suite: await expect(page.locator(RECT_DROP_BOX)).toHaveText('Drop here')
BExpectDropText ==
    /\ dpc = "expectDropText"
    /\ IF dropLabel = LABEL_DROP_BOX
       THEN dpc' = "expectDragText" /\ UNCHANGED dverdict
       ELSE DFail
    /\ UNCHANGED <<dsuite, dcase, loopI, target, events, dpageVars, dragFrame>>

\* box suite: await expect(page.locator(RECT_DRAG_BOX)).toHaveText('Drag me')
BExpectDragText ==
    /\ dpc = "expectDragText"
    /\ IF dragLabelOk
       THEN dpc' = "boxDrag" /\ UNCHANGED dverdict
       ELSE DFail
    /\ UNCHANGED <<dsuite, dcase, loopI, target, events, dpageVars, dragFrame>>

\* drop_box.boundingBox() is null when the element is not visible; target_x
\* and target_y are assigned only from a bounding box.
TargetAlwaysDefined(visible) == TRUE

TargetDefined(visible) == visible

\* box suite: the drag of the step 'Perform drag and drop action ...'.
\* dragTo(drop_box) hovers the drop box and times out when it is not visible.
BDrag ==
    /\ dpc = "boxDrag"
    /\ IF dcase.is_positive
       THEN IF dropBoxVisible
            THEN /\ PageAfterDrag
                 /\ events' = Append(events, "fwd")
                 /\ target' = target
                 /\ dpc' = "expectLabel" /\ UNCHANGED dverdict
            ELSE DFail /\ UNCHANGED <<target, events, dropLabel, labelHistory, imgLoc>>
       ELSE /\ target' = TargetDefined(dropBoxVisible)
            /\ IF target'
               THEN PageAfterDrag /\ events' = Append(events, "fwd")
               ELSE UNCHANGED <<events, dropLabel, labelHistory, imgLoc>>
            /\ dpc' = "expectLabel" /\ UNCHANGED dverdict
    /\ UNCHANGED <<dsuite, dcase, loopI, durl, headingOk, dragLabelOk, box1Visible,
                   dropBoxVisible, dragFrame>>

\* await expect(locator).toHaveText(expected_drop_box_txt)
LabelUnchecked(actual, expected) == TRUE

LabelMatches(actual, expected) == actual = expected

\* box suite: await expect(drop_box_txt).toHaveText(expected_drop_box_txt)
BExpectLabel ==
    /\ dpc = "expectLabel"
    /\ events' = Append(events, "expectText")
    /\ IF LabelMatches(dropLabel, dcase.expected_drop_box_txt)
       THEN DPass
       ELSE DFail
    /\ UNCHANGED <<dsuite, dcase, loopI, target, dpageVars, dragFrame>>

\* image suite: await expect(page.locator(RECT_BOX_1)).toBeVisible()
IExpectBox1 ==
    /\ dpc = "expectBox1"
    /\ IF box1Visible
       THEN dpc' = "expectBox2" /\ UNCHANGED dverdict
       ELSE DFail
    /\ UNCHANGED <<dsuite, dcase, loopI, target, events, dpageVars, dragFrame>>

\* image suite: await expect(page.locator(RECT_BOX_2)).toBeVisible()
IExpectBox2 ==
    /\ dpc = "expectBox2"
    /\ IF dropBoxVisible
       THEN dpc' = "expectImage" /\ UNCHANGED dverdict
       ELSE DFail
    /\ UNCHANGED <<dsuite, dcase, loopI, target, events, dpageVars, dragFrame>>

\* image suite: await expect(drop_box_1.locator('img')).toBeVisible()
IExpectImage ==
    /\ dpc = "expectImage"
    /\ IF imgLoc = "box1"
       THEN dpc' = "branch" /\ UNCHANGED dverdict
       ELSE DFail
    /\ UNCHANGED <<dsuite, dcase, loopI, target, events, dpageVars, dragFrame>>

\* for (let i = 0; i <= repeat; i++)
LoopContinues(i, repeat) == i <= repeat

\* image suite: if (is_positive) ... else { boundingBox; target_x, target_y },
\* then switch (is_loop_back) and the initialisation of the loop.
IBranch ==
    /\ dpc = "branch"
    /\ target' = IF dcase.is_positive THEN target ELSE TargetDefined(dropBoxVisible)
    /\ loopI' = 0
    /\ dpc' = "loopTest"
    /\ UNCHANGED <<dsuite, dcase, dverdict, events, dpageVars, dragFrame>>

\* The loop condition; a case without loop-back runs its drag once.
ILoopTest ==
    /\ dpc = "loopTest"
    /\ IF dcase.is_loop_back
       THEN IF LoopContinues(loopI, dcase.repeat)
            THEN dpc' = "fwd" /\ UNCHANGED dverdict
            ELSE DPass
       ELSE IF loopI = 0
            THEN dpc' = "fwd" /\ UNCHANGED dverdict
            ELSE DPass
    /\ UNCHANGED <<dsuite, dcase, loopI, target, events, dpageVars, dragFrame>>

\* image suite, forward drag. Positive: image_in_box_1.dragTo(drop_box_2).
\* Negative: if target_x and target_y are defined,
\* image_in_box_1.dragTo(content_box, {targetPosition}).  The locator
\* image_in_box_1 resolves only while the image is in box 1.
IForward ==
    /\ dpc = "fwd"
    /\ IF dcase.is_positive \/ target
       THEN IF imgLoc = "box1"
            THEN /\ PageAfterDrag
                 /\ events' = Append(events, "fwd")
                 /\ dpc' = (IF dcase.is_positive THEN "expectInBox2"
                            ELSE IF dcase.is_loop_back THEN "back" ELSE "loopNext")
                 /\ UNCHANGED dverdict
            ELSE DFail /\ UNCHANGED <<events, dropLabel, labelHistory, imgLoc>>
       ELSE /\ dpc' = (IF dcase.is_loop_back THEN "back" ELSE "loopNext")
            /\ UNCHANGED <<dverdict, events, dropLabel, labelHistory, imgLoc>>
    /\ UNCHANGED <<dsuite, dcase, loopI, target, durl, headingOk, dragLabelOk,
                   box1Visible, dropBoxVisible, dragFrame>>

\* positive: await expect(image_in_box_2).toBeVisible()
IExpectInBox2 ==
    /\ dpc = "expectInBox2"
    /\ events' = Append(events, "expectInBox2")
    /\ IF imgLoc = "box2"
       THEN dpc' = "expectText" /\ UNCHANGED dverdict
       ELSE DFail
    /\ UNCHANGED <<dsuite, dcase, loopI, target, dpageVars, dragFrame>>

\* positive: await expect(drop_box_2).toHaveText(expected_drop_box_txt)
IExpectText ==
    /\ dpc = "expectText"
    /\ events' = Append(events, "expectText")
    /\ IF LabelMatches(dropLabel, dcase.expected_drop_box_txt)
       THEN dpc' = (IF dcase.is_loop_back THEN "back" ELSE "loopNext")
            /\ UNCHANGED dverdict
       ELSE DFail
    /\ UNCHANGED <<dsuite, dcase, loopI, target, dpageVars, dragFrame>>

\* image suite, return drag. Positive: image_in_box_2.dragTo(drop_box_1).
\* Negative: image_in_content.dragTo(drop_box_1); the image is always
\* somewhere in div.content.
IBack ==
    /\ dpc = "back"
    /\ PageAfterDrag
    /\ events' = Append(events, "back")
    /\ dpc' = (IF dcase.is_positive THEN "expectInBox1" ELSE "loopNext")
    /\ UNCHANGED <<dsuite, dcase, dverdict, loopI, target, durl, headingOk,
                   dragLabelOk, box1Visible, dropBoxVisible, dragFrame>>

\* positive: await expect(image_in_box_1).toBeVisible()
IExpectInBox1 ==
    /\ dpc = "expectInBox1"
    /\ events' = Append(events, "expectInBox1")
    /\ IF imgLoc = "box1"
       THEN dpc' = "loopNext" /\ UNCHANGED dverdict
       ELSE DFail
    /\ UNCHANGED <<dsuite, dcase, loopI, target, dpageVars, dragFrame>>

\* i++ (or the break of a case without loop-back)
ILoopNext ==
    /\ dpc = "loopNext"
    /\ loopI' = loopI + 1
    /\ dpc' = "loopTest"
    /\ UNCHANGED <<dsuite, dcase, dverdict, target, events, dpageVars, dragFrame>>

NextDrag ==
    \/ DGoto \/ DExpectHeading \/ BExpectDropText \/ BExpectDragText \/ BDrag
    \/ BExpectLabel \/ IExpectBox1 \/ IExpectBox2 \/ IExpectImage \/ IBranch
    \/ ILoopTest \/ IForward \/ IExpectInBox2 \/ IExpectText \/ IBack
    \/ IExpectInBox1 \/ ILoopNext

SpecDrag == InitDrag /\ [][NextDrag]_vars

\* ------------------------------------------------------------------------
\* Claims about the drag-and-drop units
\* ------------------------------------------------------------------------
\* Number of occurrences of event e among the first n events.
RECURSIVE CountEvents(_, _)
CountEvents(e, n) ==
    IF n = 0 THEN 0
    ELSE CountEvents(e, n - 1) + (IF events[n] = e THEN 1 ELSE 0)

\* C8: in the box suite a unit passes only if the drop target read
\* 'Drop here' before the drag and, after a drag onto the target, changed
\* once, to 'Dropped!' (one change for the one drag), or, after a drag to the
\* position outside the target, still reads 'Drop here'; in both cases the
\* label is asserted after the drag.
C8_BoxLabelAfterDrag ==
    dsuite = "box" =>
        /\ (dpc = "done" /\ CountEvents("fwd", Len(events)) > 0) =>
              events = <<"fwd", "expectText">>
        /\ dverdict = "passed" =>
              /\ labelHistory[1] = LABEL_DROP_BOX
              /\ events[Len(events)] = "expectText"
              /\ dcase.is_positive =>
                    /\ events = <<"fwd", "expectText">>
                    /\ labelHistory = <<LABEL_DROP_BOX, LABEL_BOX_DROPPED>>
                    /\ dropLabel = LABEL_BOX_DROPPED
              /\ ~dcase.is_positive =>
                    /\ labelHistory = <<LABEL_DROP_BOX>>
                    /\ dropLabel = LABEL_DROP_BOX

C8_Witness ==
    /\ dsuite = "box" /\ dcase.is_positive /\ dverdict = "passed"
    /\ events = <<"fwd", "expectText">>
    /\ labelHistory = <<LABEL_DROP_BOX, LABEL_BOX_DROPPED>>

\* C9: a looped image drag sequence with repeat count N that has run to its
\* end has performed exactly N+1 forward drags and N+1 return drags, and the
\* image is in Box_1 at the end.
C9_LoopBackEndsInBox1 ==
    (dsuite = "image" /\ dcase.is_loop_back /\ dpc = "done" /\ dverdict = "passed") =>
        /\ CountEvents("fwd", Len(events)) = dcase.repeat + 1
        /\ CountEvents("back", Len(events)) = dcase.repeat + 1
        /\ imgLoc = "box1"

\* C10: in every repetition of a looped sequence, positive or negative, the
\* return drag is preceded by the assertions of the post-drop state (image
\* in Box_2, text of Box_2), themselves preceded by the forward drag.
C10_AssertsBeforeReversing ==
    (dsuite = "image" /\ dcase.is_loop_back) =>
        \A k \in 1..Len(events) :
            events[k] = "back" =>
                /\ k >= 4
                /\ events[k - 3] = "fwd"
                /\ events[k - 2] = "expectInBox2"
                /\ events[k - 1] = "expectText"

\* C11: a negative image unit that has dragged and passed has verified the
\* expected outcome: Box_2 reads the row's expected text (empty, so not
\* 'Dropped!') and the image is in Box_1.
C11_NegativeOutcomeVerified ==
    (dsuite = "image" /\ ~dcase.is_positive /\ dverdict = "passed"
        /\ CountEvents("fwd", Len(events)) > 0) =>
        /\ dropLabel = dcase.expected_drop_box_txt
        /\ dropLabel # LABEL_BOX_DROPPED
        /\ imgLoc = "box1"

\* ------------------------------------------------------------------------
\* The drop point of a negative drag (boxes: part_003; images: image.spec.ts)
\* ------------------------------------------------------------------------
X_OFFSET == 10

\* Coordinates and sizes of a drawn layout, in pixels.
Coords == {GridStep * k : k \in 0..MaxGrid}
Sizes == {GridStep * k : k \in 1..(MaxGrid + 2)}

\* The drop target lies inside div.content, so the corner of div.content is
\* above and to the left of it.
InitDropPoint ==
    /\ RegIdle
    /\ InputIdle
    /\ DragIdle
    /\ AlertIdle
    /\ ChkIdle
    /\ WorkerIdle
    /\ LateIdle
    /\ gpc = "boundingBox"
    /\ drop_box_bb = Null
    /\ target_x = Undefined
    /\ target_y = Undefined
    /\ dropPoint = NoPoint
    /\ dropShown \in BOOLEAN
    /\ \E x, y \in Coords, w, h \in Sizes : dropRect = Box(x, y, w, h)
    /\ \E x, y \in Coords :
          /\ x <= dropRect.x
          /\ y <= dropRect.y
          /\ contentOrigin = Point(x, y)

\* let drop_box_bb = await drop_box.boundingBox(): the rectangle of the
\* element relative to the viewport, or null when it is not visible.
GBoundingBox ==
    /\ gpc = "boundingBox"
    /\ drop_box_bb' = (IF dropShown THEN dropRect ELSE Null)
    /\ gpc' = "assign"
    /\ UNCHANGED <<target_x, target_y, dropPoint, dropRect, dropShown, contentOrigin,
                   geomFrame>>

\* if (drop_box_bb) { target_x = drop_box_bb.x + X_OFFSET; target_y = drop_box_bb.y; }
TargetX(bb) == bb.x + X_OFFSET
TargetY(bb) == bb.y

GAssign ==
    /\ gpc = "assign"
    /\ IF ~drop_box_bb.isNull
       THEN /\ target_x' = Number(TargetX(drop_box_bb))
            /\ target_y' = Number(TargetY(drop_box_bb))
       ELSE UNCHANGED <<target_x, target_y>>
    /\ gpc' = "dragTo"
    /\ UNCHANGED <<drop_box_bb, dropPoint, dropRect, dropShown, contentOrigin,
                   geomFrame>>

\* dragTo(content_box, {targetPosition: {x, y}}) releases the mouse at the
\* point (x, y) counted from the top-left corner of content_box.
ReleasePoint(origin, x, y) == Point(origin.x + x, origin.y + y)

\* if (target_x !== undefined && target_y !== undefined)
\*     await drag.dragTo(content_box, {targetPosition: {x: target_x, y: target_y}})
GDragTo ==
    /\ gpc = "dragTo"
    /\ IF target_x.defined /\ target_y.defined
       THEN dropPoint' = ReleasePoint(contentOrigin, target_x.n, target_y.n)
       ELSE UNCHANGED dropPoint
    /\ gpc' = "done"
    /\ UNCHANGED <<drop_box_bb, target_x, target_y, dropRect, dropShown,
                   contentOrigin, geomFrame>>

NextDropPoint == GBoundingBox \/ GAssign \/ GDragTo

SpecDropPoint == InitDropPoint /\ [][NextDropPoint]_vars

\* The point p lies within the rectangle r.
Inside(p, r) ==
    /\ r.x <= p.x /\ p.x < r.x + r.width
    /\ r.y <= p.y /\ p.y < r.y + r.height

\* C12: the point at which a negative drag releases the mouse lies outside
\* the drop target, for every placement of the drop target and of
\* div.content.
C12_DropPointOutside ==
    dropPoint.released => ~Inside(dropPoint, dropRect)

\* ------------------------------------------------------------------------
\* Alert suites (tests/alerts/confirmation.spec.ts): the case tables
\* ------------------------------------------------------------------------
ALERT_LABEL_HEADING == "Alerts"
CONFIRM_RESULT_TXT == "You selected"
PROMPT_RESULT_TXT == "You entered"
RESULT_TXT_NONE == "You entered nothing"
RESULT_TXT_CANCEL == "You canceled the prompt"
PROMPT_INPUT == "This is a test prompt alert input text."
UNKNOWN_MSG == "Unknown test case for dialog handling."

ARow(c, t, p, e) ==
    [t_case |-> c, t_type |-> t, prompt_input |-> p, expected_txt |-> e]

\* The rows of the confirmation suite have no prompt_input field.
ConfirmCases == <<
    ARow("Ok", AllTiers, "", "Ok"),
    ARow("Cancel", AllTiers, "", "Cancel") >>

PromptCases == <<
    ARow("Ok - with prompt input", AllTiers, PROMPT_INPUT, PROMPT_INPUT),
    ARow("Ok - without prompt input", AllTiers, "", RESULT_TXT_NONE),
    ARow("Cancel", AllTiers, "", RESULT_TXT_CANCEL) >>

AlertSuites == {"confirm", "prompt"}

ACases(s) == IF s = "confirm" THEN ConfirmCases ELSE PromptCases

APath(s) ==
    IF s = "confirm" THEN "/elements/alert/confirm" ELSE "/elements/alert/prompt"

\* Labels a row could carry: the labels of the two tables and labels that
\* are in neither.
AnyLabels ==
    {"Ok", "Cancel", "Ok - with prompt input", "Ok - without prompt input",
     "Okay", "cancel", "Abort", ""}

\* String.prototype.includes: sub occurs in s as a contiguous substring.
IncludesNever(s, sub) == FALSE

Includes(s, sub) ==
    \E i \in 1..(Len(s) - Len(sub) + 1) : SubSeq(s, i, i + Len(sub) - 1) = sub

\* What the page can show in div#result once the dialog is closed.
ResultPrefixes == {"", CONFIRM_RESULT_TXT \o ": ", PROMPT_RESULT_TXT \o ": "}
ResultDetails ==
    {"", "Ok", "Cancel", PROMPT_INPUT, "nothing", RESULT_TXT_NONE, RESULT_TXT_CANCEL}

\* confirmation suite, the if / else-if / else around page.on('dialog'):
\* the listener that is registered and what is logged while registering.
ConfirmListener(t_case) ==
    IF t_case = "Ok" THEN [act |-> "accept", log |-> <<>>]
    ELSE IF t_case = "Cancel" THEN [act |-> "dismiss", log |-> <<>>]
    ELSE [act |-> "dismiss", log |-> <<UNKNOWN_MSG>>]

\* prompt suite, the body of the listener: what it does with the dialog and
\* what it logs before doing so.
PromptAction(t_case, prompt_input) ==
    IF Includes(t_case, "Ok")
    THEN IF prompt_input # ""
         THEN [act |-> "accept", text |-> prompt_input, log |-> <<>>]
         ELSE [act |-> "accept", text |-> NoText, log |-> <<>>]
    ELSE IF t_case = "Cancel"
         THEN [act |-> "dismiss", text |-> NoText, log |-> <<"Click cancel.">>]
         ELSE [act |-> "dismiss", text |-> NoText, log |-> <<UNKNOWN_MSG>>]

\* ------------------------------------------------------------------------
\* Alert suites: the beforeEach hook, the body of one unit and the listener
\* ------------------------------------------------------------------------
AlertStart ==
    /\ RegIdle
    /\ InputIdle
    /\ DragIdle
    /\ GeomIdle
    /\ ChkIdle
    /\ WorkerIdle
    /\ LateIdle
    /\ apc = "goto"
    /\ averdict = "running"
    /\ handlers = <<>>
    /\ hpc = "idle"
    /\ invocations = 0
    /\ alog = <<>>
    /\ aevents = <<>>
    /\ aurl = "about:blank"
    /\ aheadingOk = FALSE
    /\ btnVisible = FALSE
    /\ opensDialog = FALSE
    /\ dialog = "none"
    /\ acceptText = NoText
    /\ resultPrefix = ""
    /\ resultDetail = ""

\* A unit generated from a row of the literal tables.
InitAlert ==
    /\ asuite \in AlertSuites
    /\ acase \in {ACases(asuite)[i] : i \in 1..Len(ACases(asuite))}
    /\ AlertStart

\* A unit generated from a row carrying any label.
InitAlertAny ==
    /\ asuite \in AlertSuites
    /\ \E i \in 1..Len(ACases(asuite)), l \in AnyLabels, p \in {"", PROMPT_INPUT} :
          acase = [ACases(asuite)[i] EXCEPT
                      !.t_case = l,
                      !.prompt_input = IF asuite = "prompt" THEN p ELSE ""]
    /\ AlertStart

AFail ==
    /\ averdict' = "failed"
    /\ apc' = "done"

APass ==
    /\ averdict' = "passed"
    /\ apc' = "done"

\* The page once the dialog is closed (or after a click that opened none):
\* what div#result shows is the application's answer.
PageAfterDialog ==
    /\ resultPrefix' \in ResultPrefixes
    /\ resultDetail' \in ResultDetails

\* beforeEach: click_btn = page.locator('a.a-button'); await page.goto(path)
AGoto ==
    /\ apc = "goto"
    /\ aurl' = APath(asuite)
    /\ aheadingOk' \in BOOLEAN
    /\ btnVisible' \in BOOLEAN
    /\ opensDialog' \in BOOLEAN
    /\ aevents' = Append(aevents, "goto")
    /\ apc' = "expectHeading"
    /\ UNCHANGED <<asuite, acase, averdict, handlers, hpc, invocations, alog, dialog,
                   acceptText, resultPrefix, resultDetail, alertFrame>>

\* beforeEach: await expect(page.locator('h1')).toHaveText(LABEL_HEADING)
AExpectHeading ==
    /\ apc = "expectHeading"
    /\ aevents' = Append(aevents, "expectHeading")
    /\ IF aheadingOk
       THEN apc' = "expectBtn" /\ UNCHANGED averdict
       ELSE AFail
    /\ UNCHANGED <<asuite, acase, handlers, hpc, invocations, alog, apageVars,
                   alertFrame>>

\* beforeEach: await expect(click_btn).toBeVisible()
AExpectBtn ==
    /\ apc = "expectBtn"
    /\ aevents' = Append(aevents, "expectBtn")
    /\ IF btnVisible
       THEN apc' = "register" /\ UNCHANGED averdict
       ELSE AFail
    /\ UNCHANGED <<asuite, acase, handlers, hpc, invocations, alog, apageVars,
                   alertFrame>>

\* body: page.on('dialog', listener).  The confirmation suite chooses the
\* listener by the label and logs in the else branch; the prompt suite
\* registers one listener that looks at the label when it is invoked.
ARegister ==
    /\ apc = "register"
    /\ IF asuite = "confirm"
       THEN /\ handlers' = Append(handlers, ConfirmListener(acase.t_case).act)
            /\ alog' = alog \o ConfirmListener(acase.t_case).log
       ELSE /\ handlers' = Append(handlers, "byLabel")
            /\ alog' = alog
    /\ aevents' = Append(aevents, "register")
    /\ apc' = "click"
    /\ UNCHANGED <<asuite, acase, averdict, hpc, invocations, apageVars, alertFrame>>

\* body: await click_btn.click().  A click that opens a dialog does not
\* return while the dialog is open.
AClick ==
    /\ apc = "click"
    /\ aevents' = Append(aevents, "click")
    /\ IF opensDialog
       THEN /\ dialog' = "open"
            /\ apc' = "clickPending"
            /\ UNCHANGED <<resultPrefix, resultDetail>>
       ELSE /\ PageAfterDialog
            /\ apc' = "expect1"
            /\ UNCHANGED dialog
    /\ UNCHANGED <<asuite, acase, averdict, handlers, hpc, invocations, alog, aurl,
                   aheadingOk, btnVisible, opensDialog, acceptText, alertFrame>>

\* The page emits 'dialog': every registered listener is invoked once.
HInvoke ==
    /\ dialog = "open"
    /\ hpc = "idle"
    /\ handlers # <<>>
    /\ hpc' = "running"
    /\ invocations' = invocations + Len(handlers)
    /\ aevents' = Append(aevents, "invoke")
    /\ UNCHANGED <<asuite, acase, apc, averdict, handlers, alog, apageVars, alertFrame>>

\* What the invoked listener does with the dialog.
ListenerAction ==
    IF asuite = "confirm"
    THEN [act |-> handlers[1], text |-> NoText, log |-> <<>>]
    ELSE PromptAction(acase.t_case, acase.prompt_input)

\* listener: await dialog.accept(), dialog.accept(prompt_input) or
\* dialog.dismiss()
HAct ==
    /\ hpc = "running"
    /\ dialog' = (IF ListenerAction.act = "accept" THEN "accepted" ELSE "dismissed")
    /\ acceptText' = ListenerAction.text
    /\ alog' = alog \o ListenerAction.log
    /\ PageAfterDialog
    /\ aevents' = Append(aevents, ListenerAction.act)
    /\ hpc' = "acted"
    /\ UNCHANGED <<asuite, acase, apc, averdict, handlers, invocations, aurl,
                   aheadingOk, btnVisible, opensDialog, alertFrame>>

\* listener, after the await: the prompt suite logs 'Click confirm.' in its
\* Ok branch.
HFinish ==
    /\ hpc = "acted"
    /\ alog' = (IF asuite = "prompt" /\ dialog = "accepted"
                THEN Append(alog, "Click confirm.") ELSE alog)
    /\ hpc' = "done"
    /\ UNCHANGED <<asuite, acase, apc, averdict, handlers, invocations, aevents,
                   apageVars, alertFrame>>

\* click() returns once the dialog it opened has been accepted or dismissed.
ClickReturnsAtOnce(d) == TRUE

ClickReturns(d) == d \in {"accepted", "dismissed"}

AClickReturn ==
    /\ apc = "clickPending"
    /\ ClickReturns(dialog)
    /\ apc' = "expect1"
    /\ UNCHANGED <<asuite, acase, averdict, handlers, hpc, invocations, alog, aevents,
                   apageVars, alertFrame>>

\* expect(locator).toContainText(expected): expected occurs in the text.
ContainsAnything(text, expected) == TRUE

ContainsText(text, expected) == Includes(text, expected)

\* confirmation: await expect(result_text_1).toContainText(RESULT_TXT);
\* prompt: the same only if (t_case === 'Ok - with prompt input').
\* div#result holds p#result-text, so its text ends with the detail.
AExpect1 ==
    /\ apc = "expect1"
    /\ IF asuite = "confirm"
       THEN /\ aevents' = Append(aevents, "expect1")
            /\ IF ContainsText(resultPrefix \o resultDetail, CONFIRM_RESULT_TXT)
               THEN apc' = "expect2" /\ UNCHANGED averdict
               ELSE AFail
       ELSE IF acase.t_case = "Ok - with prompt input"
            THEN /\ aevents' = Append(aevents, "expect1")
                 /\ IF ContainsText(resultPrefix \o resultDetail, PROMPT_RESULT_TXT)
                    THEN apc' = "expect2" /\ UNCHANGED averdict
                    ELSE AFail
            ELSE apc' = "expect2" /\ UNCHANGED <<averdict, aevents>>
    /\ UNCHANGED <<asuite, acase, handlers, hpc, invocations, alog, apageVars,
                   alertFrame>>

\* await expect(result_text_2).toContainText(expected_txt)
AExpect2 ==
    /\ apc = "expect2"
    /\ aevents' = Append(aevents, "expect2")
    /\ IF ContainsText(resultDetail, acase.expected_txt)
       THEN APass
       ELSE AFail
    /\ UNCHANGED <<asuite, acase, handlers, hpc, invocations, alog, apageVars,
                   alertFrame>>

NextAlert ==
    \/ AGoto \/ AExpectHeading \/ AExpectBtn \/ ARegister \/ AClick \/ HInvoke
    \/ HAct \/ HFinish \/ AClickReturn \/ AExpect1 \/ AExpect2

SpecAlert == InitAlert /\ [][NextAlert]_vars

SpecAlertAny == InitAlertAny /\ [][NextAlert]_vars

\* ------------------------------------------------------------------------
\* Claims about the alert units
\* ------------------------------------------------------------------------
\* Index of the first occurrence of event e in aevents, 0 when there is none.
AIndex(e) ==
    IF \E k \in 1..Len(aevents) : aevents[k] = e
    THEN CHOOSE k \in 1..Len(aevents) :
            aevents[k] = e /\ \A j \in 1..(k - 1) : aevents[j] # e
    ELSE 0

\* Number of occurrences of event e in aevents.
ACount(e) == Cardinality({k \in 1..Len(aevents) : aevents[k] = e})

ActedOnDialog == {"accept", "dismiss"}

\* C13: a unit of an alert suite registers exactly one dialog listener, and
\* does so before the click; when the click opens a dialog the listener is
\* invoked exactly once; the result assertions run only after the listener
\* has accepted or dismissed the dialog.
C13_OneListenerActsBeforeAssertions ==
    asuite \in AlertSuites =>
        /\ Len(handlers) <= 1
        /\ ACount("register") = Len(handlers)
        /\ AIndex("click") > 0 =>
              /\ Len(handlers) = 1
              /\ 0 < AIndex("register") /\ AIndex("register") < AIndex("click")
        /\ invocations <= 1
        /\ invocations = ACount("invoke")
        /\ dialog = "open" => (hpc \in {"idle", "running"} /\ apc = "clickPending")
        /\ dialog \in {"accepted", "dismissed"} =>
              /\ invocations = 1
              /\ AIndex("click") < AIndex("invoke")
        /\ (dialog # "none" /\ (apc \in {"expect1", "expect2"} \/ averdict = "passed")) =>
              /\ dialog \in {"accepted", "dismissed"}
              /\ hpc \in {"acted", "done"}
              /\ \E a \in ActedOnDialog :
                    /\ AIndex("invoke") < AIndex(a)
                    /\ \A k \in 1..Len(aevents) :
                          aevents[k] \in {"expect1", "expect2"} => AIndex(a) < k

C13_Witness ==
    /\ asuite = "prompt" /\ averdict = "passed" /\ dialog = "accepted"
    /\ invocations = 1
    /\ aevents = <<"goto", "expectHeading", "expectBtn", "register", "click",
                   "invoke", "accept", "expect1", "expect2">>

\* The labels of the rows of a suite's table.
Recognized(s) == {ACases(s)[i].t_case : i \in 1..Len(ACases(s))}

\* C14: in both alert suites a label that is not one of the suite's labels
\* makes the listener dismiss the dialog, with 'Unknown test case for dialog
\* handling.' logged; no such label leads to the dialog being accepted.
C14_UnknownLabelDismissed ==
    (asuite \in AlertSuites /\ acase.t_case \notin Recognized(asuite)
        /\ dialog \in {"accepted", "dismissed"}) =>
        /\ dialog = "dismissed"
        /\ \E k \in 1..Len(alog) : alog[k] = UNKNOWN_MSG

\* The fallback branch of the dialog handling has run: it is the only place
\* that logs UNKNOWN_MSG.
FallbackReached == \E k \in 1..Len(alog) : alog[k] = UNKNOWN_MSG

\* C15: in a unit generated from a row of the literal tables the fallback
\* branch for unknown labels is never reached, neither while registering
\* the listener nor in the listener.
C15_FallbackNeverReached ==
    asuite \in AlertSuites => ~FallbackReached

C15_Witness ==
    /\ asuite = "prompt" /\ acase.t_case = "Cancel"
    /\ hpc = "done" /\ dialog = "dismissed"
    /\ alog = <<"Click cancel.">>

\* C16: once the dialog is closed, what was done with it follows from the
\* label: confirmation - accepted for 'Ok', dismissed for 'Cancel'; prompt -
\* accepted with the prompt text for an Ok label with a non-empty input,
\* accepted without text for an Ok label with an empty input, dismissed for
\* 'Cancel'.  A unit passes only after asserting, as its last step, that
\* the result text contains the row's expected text.
C16_ActionByLabel ==
    asuite \in AlertSuites =>
        /\ dialog \in {"accepted", "dismissed"} =>
              /\ (asuite = "confirm" /\ acase.t_case = "Ok") =>
                    (dialog = "accepted" /\ acceptText = NoText)
              /\ (asuite = "confirm" /\ acase.t_case = "Cancel") =>
                    dialog = "dismissed"
              /\ (asuite = "prompt" /\ Includes(acase.t_case, "Ok")
                    /\ acase.prompt_input # "") =>
                    (dialog = "accepted" /\ acceptText = acase.prompt_input)
              /\ (asuite = "prompt" /\ Includes(acase.t_case, "Ok")
                    /\ acase.prompt_input = "") =>
                    (dialog = "accepted" /\ acceptText = NoText)
              /\ (asuite = "prompt" /\ acase.t_case = "Cancel") =>
                    dialog = "dismissed"
        /\ averdict = "passed" =>
              /\ aevents[Len(aevents)] = "expect2"
              /\ Includes(resultDetail, acase.expected_txt)

C16_Witness ==
    /\ asuite = "prompt" /\ acase.t_case = "Ok - with prompt input"
    /\ averdict = "passed"
    /\ dialog = "accepted" /\ acceptText = PROMPT_INPUT
    /\ resultDetail = PROMPT_INPUT

\* ------------------------------------------------------------------------
\* Checkbox suite (tests/checkbox/multiple_checkbox.spec.ts): the case table
\* ------------------------------------------------------------------------
CHK_LABEL_HEADING == "Checkboxes"
LABEL_CHKBOX_1 == "One"
LABEL_CHKBOX_2 == "Two"
LABEL_CHKBOX_3 == "Three"
LABEL_NON_SELECTED_CHKBOX == ""
CHK_RESULT_TXT == "Selected checkboxes:"

CRow(c, t, sel, e) ==
    [t_case |-> c, t_type |-> t, chk_box_selected |-> sel,
     expected_drop_box_txt |-> e]

ChkCases == <<
    CRow("Select none", AllTiers, <<>>, LABEL_NON_SELECTED_CHKBOX),
    CRow("Select one", RegrOnly, <<LABEL_CHKBOX_1>>, "one"),
    CRow("Select one and two", SmokeRegr, <<LABEL_CHKBOX_1, LABEL_CHKBOX_2>>, "one, two"),
    CRow("Select one and three", RegrOnly, <<LABEL_CHKBOX_1, LABEL_CHKBOX_3>>,
         "one, three"),
    CRow("Select two and three", RegrOnly, <<LABEL_CHKBOX_2, LABEL_CHKBOX_3>>,
         "two, three"),
    CRow("Select one, two and three", AllTiers,
         <<LABEL_CHKBOX_1, LABEL_CHKBOX_2, LABEL_CHKBOX_3>>, "one, two, three") >>

ChkPath == "/elements/checkbox/mult_checkbox"

\* The checkboxes of the page: page.locator(LOCATOR_CHKBOX_STR).nth(0..2).
Boxes == {1, 2, 3}

\* The checkbox the for-of loop clicks for a label, 0 for a label it skips.
BoxOf(label) ==
    IF label = LABEL_CHKBOX_1 THEN 1
    ELSE IF label = LABEL_CHKBOX_2 THEN 2
    ELSE IF label = LABEL_CHKBOX_3 THEN 3
    ELSE 0

\* A click on a checkbox toggles it.
Toggle(set, b) == IF b \in set THEN set \ {b} ELSE set \cup {b}

\* What the page can show in div#result after a submit.
ChkPrefixes == {"", CHK_RESULT_TXT \o " "}
ChkDetails == {"", "one", "two", "one, two", "one, three", "two, three",
               "one, two, three"}

\* ------------------------------------------------------------------------
\* Checkbox suite: the beforeEach hook, the body of one unit, afterEach
\* ------------------------------------------------------------------------
InitChk ==
    /\ RegIdle
    /\ InputIdle
    /\ DragIdle
    /\ GeomIdle
    /\ AlertIdle
    /\ WorkerIdle
    /\ LateIdle
    /\ ccase \in {ChkCases[i] : i \in 1..Len(ChkCases)}
    /\ cpc = "goto"
    /\ cverdict = "running"
    /\ cIdx = 0
    /\ cevents = <<>>
    /\ curl = "about:blank"
    /\ cheadingOk = FALSE
    /\ visibleBoxes = {}
    /\ submitVisible = FALSE
    /\ checked = {}
    /\ chkPrefix = ""
    /\ chkDetail = ""

\* A failed assertion ends the hook or the body; afterEach runs next.
CFailIgnored ==
    /\ cverdict' = cverdict
    /\ cpc' = "deselect"
    /\ cIdx' = 1

CFail ==
    /\ cverdict' = "failed"
    /\ cpc' = "afterEach"
    /\ cIdx' = 1

CPass ==
    /\ cverdict' = "passed"
    /\ cpc' = "afterEach"
    /\ cIdx' = 1

\* beforeEach: the four module-level locators are assigned, then
\* await page.goto('/elements/checkbox/mult_checkbox')
CGoto ==
    /\ cpc = "goto"
    /\ curl' = ChkPath
    /\ cheadingOk' \in BOOLEAN
    /\ visibleBoxes' \in SUBSET Boxes
    /\ submitVisible' \in BOOLEAN
    /\ checked' \in SUBSET Boxes
    /\ cevents' = Append(cevents, "goto")
    /\ cpc' = "expectHeading"
    /\ UNCHANGED <<ccase, cverdict, cIdx, chkPrefix, chkDetail, chkFrame>>

\* beforeEach: await expect(page.locator('h1')).toHaveText(LABEL_HEADING)
CExpectHeading ==
    /\ cpc = "expectHeading"
    /\ cevents' = Append(cevents, "expectHeading")
    /\ IF cheadingOk
       THEN cpc' = "expectBoxes" /\ UNCHANGED <<cverdict, cIdx>>
       ELSE CFail
    /\ UNCHANGED <<ccase, cpageVars, chkFrame>>

\* beforeEach, step 'Check presence of checkboxes.': the three
\* expect(checkbox_n).toBeVisible()
CExpectBoxes ==
    /\ cpc = "expectBoxes"
    /\ cevents' = Append(cevents, "expectBoxes")
    /\ IF visibleBoxes = Boxes
       THEN cpc' = "expectSubmit" /\ UNCHANGED <<cverdict, cIdx>>
       ELSE CFail
    /\ UNCHANGED <<ccase, cpageVars, chkFrame>>

\* beforeEach: await expect(submit_btn).toBeVisible()
CExpectSubmit ==
    /\ cpc = "expectSubmit"
    /\ cevents' = Append(cevents, "expectSubmit")
    /\ IF submitVisible
       THEN cpc' = "deselect" /\ cIdx' = 1 /\ UNCHANGED cverdict
       ELSE CFail
    /\ UNCHANGED <<ccase, cpageVars, chkFrame>>

\* if (await checkbox_n.isChecked()) { await checkbox_n.click(); }
DeselectsNever(b, set) == FALSE

Deselects(b, set) == b \in set

\* body, 'Deselect all first': one if per checkbox, in order.
CDeselect ==
    /\ cpc = "deselect"
    /\ IF Deselects(cIdx, checked)
       THEN /\ checked' = Toggle(checked, cIdx)
            /\ cevents' = Append(cevents, "uncheck")
       ELSE UNCHANGED <<checked, cevents>>
    /\ IF cIdx < 3
       THEN cIdx' = cIdx + 1 /\ cpc' = cpc
       ELSE cIdx' = 1 /\ cpc' = "select"
    /\ UNCHANGED <<ccase, cverdict, curl, cheadingOk, visibleBoxes, submitVisible,
                   chkPrefix, chkDetail, chkFrame>>

\* body: for (const label of chk_box_selected) { click the checkbox of label }
CSelect ==
    /\ cpc = "select"
    /\ IF cIdx <= Len(ccase.chk_box_selected)
       THEN /\ checked' =
                  (IF BoxOf(ccase.chk_box_selected[cIdx]) \in Boxes
                   THEN Toggle(checked, BoxOf(ccase.chk_box_selected[cIdx]))
                   ELSE checked)
            /\ cevents' = Append(cevents, "select " \o ccase.chk_box_selected[cIdx])
            /\ cIdx' = cIdx + 1
            /\ cpc' = cpc
       ELSE /\ cpc' = "submit"
            /\ UNCHANGED <<checked, cevents, cIdx>>
    /\ UNCHANGED <<ccase, cverdict, curl, cheadingOk, visibleBoxes, submitVisible,
                   chkPrefix, chkDetail, chkFrame>>

\* body: await submit_btn.click().  What div#result shows afterwards, and
\* whether the form keeps or resets the checkboxes, is the application's
\* answer.
CSubmit ==
    /\ cpc = "submit"
    /\ chkPrefix' \in ChkPrefixes
    /\ chkDetail' \in ChkDetails
    /\ checked' \in {checked, {}}
    /\ cevents' = Append(cevents, "submit")
    /\ cpc' = "verify1"
    /\ UNCHANGED <<ccase, cverdict, cIdx, curl, cheadingOk, visibleBoxes,
                   submitVisible, chkFrame>>

\* if (expected_drop_box_txt !== LABEL_NON_SELECTED_CHKBOX)
ResultAsserted(expected) == expected # LABEL_NON_SELECTED_CHKBOX

\* body: inside the if, await expect(result_text_1).toContainText(RESULT_TXT);
\* without the if-branch the body ends.
CVerify1 ==
    /\ cpc = "verify1"
    /\ IF ResultAsserted(ccase.expected_drop_box_txt)
       THEN /\ cevents' = Append(cevents, "expect1")
            /\ IF ContainsText(chkPrefix \o chkDetail, CHK_RESULT_TXT)
               THEN cpc' = "verify2" /\ UNCHANGED <<cverdict, cIdx>>
               ELSE CFail
       ELSE CPass /\ UNCHANGED cevents
    /\ UNCHANGED <<ccase, cpageVars, chkFrame>>

\* body: await expect(result_text_2).toContainText(expected_drop_box_txt)
CVerify2 ==
    /\ cpc = "verify2"
    /\ cevents' = Append(cevents, "expect2")
    /\ IF ContainsText(chkDetail, ccase.expected_drop_box_txt)
       THEN CPass
       ELSE CFail
    /\ UNCHANGED <<ccase, cpageVars, chkFrame>>

UncheckEvent(k) == "afterEach uncheck " \o ToString(k)

\* What the hook's record gains when it is done with checkbox k: the click,
\* if there was one, and after the third checkbox the console.log that ends
\* the hook.
HookEvents(k, clicked) ==
    (IF clicked THEN <<UncheckEvent(k)>> ELSE <<>>)
        \o (IF k = 3 THEN <<"afterEach finished">> ELSE <<>>)

\* A hook that clicks every checkbox without asking isChecked().
CAfterEachClicksAll ==
    /\ cpc = "afterEach"
    /\ checked' = Toggle(checked, cIdx)
    /\ cevents' = cevents \o HookEvents(cIdx, TRUE)
    /\ IF cIdx < 3
       THEN cIdx' = cIdx + 1 /\ cpc' = cpc
       ELSE cIdx' = cIdx /\ cpc' = "done"
    /\ UNCHANGED <<ccase, cverdict, curl, cheadingOk, visibleBoxes, submitVisible,
                   chkPrefix, chkDetail, chkFrame>>

\* afterEach: the module-level locators are assigned again, then one
\* if (await checkbox_n.isChecked()) { await checkbox_n.click(); } per
\* checkbox.  A click on a checkbox that is not visible times out.
CAfterEach ==
    /\ cpc = "afterEach"
    /\ IF cIdx \in checked
       THEN IF cIdx \in visibleBoxes
            THEN /\ checked' = Toggle(checked, cIdx)
                 /\ cevents' = cevents \o HookEvents(cIdx, TRUE)
                 /\ cverdict' = cverdict
                 /\ IF cIdx < 3
                    THEN cIdx' = cIdx + 1 /\ cpc' = cpc
                    ELSE cIdx' = cIdx /\ cpc' = "done"
            ELSE /\ cverdict' = "failed"
                 /\ cpc' = "done"
                 /\ cevents' = Append(cevents, "afterEach timeout")
                 /\ UNCHANGED <<checked, cIdx>>
       ELSE /\ IF cIdx < 3
               THEN cIdx' = cIdx + 1 /\ cpc' = cpc
               ELSE cIdx' = cIdx /\ cpc' = "done"
            /\ cevents' = cevents \o HookEvents(cIdx, FALSE)
            /\ UNCHANGED <<checked, cverdict>>
    /\ UNCHANGED <<ccase, curl, cheadingOk, visibleBoxes, submitVisible, chkPrefix,
                   chkDetail, chkFrame>>

NextChk ==
    \/ CGoto \/ CExpectHeading \/ CExpectBoxes \/ CExpectSubmit \/ CDeselect
    \/ CSelect \/ CSubmit \/ CVerify1 \/ CVerify2 \/ CAfterEach

SpecChk == InitChk /\ [][NextChk]_vars

\* ------------------------------------------------------------------------
\* The order of the steps of a unit (input-field, alert, checkbox suites)
\* ------------------------------------------------------------------------
\* One unit of any of the suites whose units navigate, assert the static
\* elements, act and assert the result.
InitUnits == InitInput \/ InitAlert \/ InitChk

NextUnits == NextInput \/ NextAlert \/ NextChk

SpecUnits == InitUnits /\ [][NextUnits]_vars

\* The step a unit is at: 1 navigate, 2 static-element assertions, 3 act,
\* 4 result assertions, 5 after the body, 0 for a part that is not running.
InputPhase(at) ==
    CASE at = "goto" -> 1
      [] at \in {"expectHeading", "expectLabel"} -> 2
      [] at \in {"fill", "pressEnter"} -> 3
      [] at \in {"verify", "forMsg", "native", "expectNative", "expectMsg", "echo"} -> 4
      [] at = "done" -> 5
      [] OTHER -> 0

AlertPhase(at) ==
    CASE at = "goto" -> 1
      [] at \in {"expectHeading", "expectBtn"} -> 2
      [] at \in {"register", "click", "clickPending"} -> 3
      [] at \in {"expect1", "expect2"} -> 4
      [] at = "done" -> 5
      [] OTHER -> 0

ChkPhase(at) ==
    CASE at = "goto" -> 1
      [] at \in {"expectHeading", "expectBoxes", "expectSubmit"} -> 2
      [] at \in {"deselect", "select", "submit"} -> 3
      [] at \in {"verify1", "verify2"} -> 4
      [] at \in {"afterEach", "done"} -> 5
      [] OTHER -> 0

UnitPhase == InputPhase(pc) + AlertPhase(apc) + ChkPhase(cpc)

\* The page of the running unit is at the path of its widget.
AtWidgetPath ==
    \/ pc # "idle" /\ url = Path(suite)
    \/ apc # "idle" /\ aurl = APath(asuite)
    \/ cpc # "idle" /\ curl = ChkPath

\* The static-element assertions of the running unit have held.
StaticAsserted ==
    \/ pc # "idle" /\ headingVisible /\ labelVisible
    \/ apc # "idle" /\ aheadingOk /\ btnVisible
    \/ cpc # "idle" /\ cheadingOk /\ visibleBoxes = Boxes /\ submitVisible

\* The running unit has completed its action on the page.
ActCompleted ==
    \/ pc # "idle" /\ fieldValue = tcase.input_str
    \/ apc # "idle" /\ AIndex("click") > 0 /\ dialog # "open"
    \/ cpc # "idle" /\ (\E k \in 1..Len(cevents) : cevents[k] = "submit")

Workers == 1..MaxWorkers
WRows == 1..MaxRows
WSuites == {"alert", "checkbox", "text"}

Unit(row, project) == [row |-> row, project |-> project]
NoUnit == [row |-> 0, project |-> "none"]
ModuleLoad == [row |-> 0, project |-> "load"]

AllUnits == {Unit(r, b) : r \in WRows, b \in Browsers}

\* The rows of the text suite taken for a run: the table from the row of
\* the empty input on.
WRowCase(r) == TextCases[((r + 3) % Len(TextCases)) + 1]

Access(op, v) == [op |-> op, var |-> v]

\* The reads and writes, in program order, that a unit makes of the
\* module-level locators ("mod") or of its row's result_msg ("row").
\* alert: beforeEach writes click_btn and reads it (toBeVisible), the body
\* reads it (click).  checkbox: beforeEach writes the four locators and
\* reads them, the body uses its own, afterEach writes three and reads them.
\* text: Array.isArray(result_msg), the assignment for webkit in the
\* empty-input branch, then the expect that reads it.
UnitAccesses(s, row, project) ==
    CASE s = "alert" ->
            <<Access("W", "mod"), Access("R", "mod"), Access("R", "mod")>>
      [] s = "checkbox" ->
            <<Access("W", "mod"), Access("R", "mod"), Access("W", "mod"),
              Access("R", "mod")>>
      [] s = "text" ->
            IF ~IsArray(WRowCase(row).result_msg) /\ WRowCase(row).input_str = ""
                 /\ project = "webkit"
            THEN <<Access("R", "row"), Access("W", "row"), Access("R", "row")>>
            ELSE <<Access("R", "row"), Access("R", "row")>>

\* The module instance a worker's units see: the one of its own process.
InstanceShared(w) == 1

InstanceOf(w) == w

InitWorkers ==
    /\ RegIdle
    /\ InputIdle
    /\ DragIdle
    /\ GeomIdle
    /\ AlertIdle
    /\ ChkIdle
    /\ LateIdle
    /\ wsuite \in WSuites
    /\ wproject \in [Workers -> Browsers]
    /\ pending = AllUnits
    /\ wcur = [w \in Workers |-> NoUnit]
    /\ wpc = [w \in Workers |-> 0]
    /\ modWriter = [i \in Workers |-> ModuleLoad]
    /\ rowWriter = [i \in Workers |-> [r \in WRows |-> ModuleLoad]]
    /\ lastRead = [reader |-> NoUnit, writer |-> NoUnit, var |-> "none"]

\* The runner hands the next unit of the worker's project, in the order of
\* the table, to a free worker.
WStart(w) ==
    /\ wcur[w] = NoUnit
    /\ \E u \in pending :
          /\ u.project = wproject[w]
          /\ \A v \in pending : v.project = u.project => u.row <= v.row
          /\ wcur' = [wcur EXCEPT ![w] = u]
          /\ pending' = pending \ {u}
    /\ wpc' = [wpc EXCEPT ![w] = 1]
    /\ UNCHANGED <<wsuite, wproject, modWriter, rowWriter, lastRead, workerFrame>>

\* The unit of worker w makes its next access.
WStep(w) ==
    /\ wcur[w] # NoUnit
    /\ wpc[w] <= Len(UnitAccesses(wsuite, wcur[w].row, wcur[w].project))
    /\ LET a == UnitAccesses(wsuite, wcur[w].row, wcur[w].project)[wpc[w]]
           i == InstanceOf(w)
           r == wcur[w].row
       IN  IF a.op = "W"
           THEN /\ modWriter' = (IF a.var = "mod"
                                 THEN [modWriter EXCEPT ![i] = wcur[w]]
                                 ELSE modWriter)
                /\ rowWriter' = (IF a.var = "row"
                                 THEN [rowWriter EXCEPT ![i][r] = wcur[w]]
                                 ELSE rowWriter)
                /\ UNCHANGED lastRead
           ELSE /\ lastRead' = [reader |-> wcur[w],
                                writer |-> (IF a.var = "mod" THEN modWriter[i]
                                            ELSE rowWriter[i][r]),
                                var |-> a.var]
                /\ UNCHANGED <<modWriter, rowWriter>>
    /\ wpc' = [wpc EXCEPT ![w] = wpc[w] + 1]
    /\ UNCHANGED <<wsuite, wproject, pending, wcur, workerFrame>>

\* The unit of worker w has ended; the worker is free again.
WFinish(w) ==
    /\ wcur[w] # NoUnit
    /\ wpc[w] > Len(UnitAccesses(wsuite, wcur[w].row, wcur[w].project))
    /\ wcur' = [wcur EXCEPT ![w] = NoUnit]
    /\ wpc' = [wpc EXCEPT ![w] = 0]
    /\ UNCHANGED <<wsuite, wproject, pending, modWriter, rowWriter, lastRead,
                   workerFrame>>

NextWorkers == \E w \in Workers : WStart(w) \/ WStep(w) \/ WFinish(w)

SpecWorkers == InitWorkers /\ [][NextWorkers]_vars

\* C18: no unit reads a value that another unit (or another unit's hooks)
\* wrote, however the runner spreads the units over the workers and
\* interleaves them: a module-level locator that a unit reads was assigned
\* by that unit, and the result_msg a unit reads is the row's value from the
\* table or the unit's own reassignment for webkit.
C18_NoReadOfAnotherUnitsWrite ==
    (wsuite \in WSuites /\ lastRead.var # "none") =>
        /\ lastRead.var = "mod" => lastRead.writer = lastRead.reader
        /\ lastRead.var = "row" => lastRead.writer \in {lastRead.reader, ModuleLoad}

C18_Witness ==
    /\ wsuite = "text"
    /\ lastRead.var = "row"
    /\ lastRead.reader.project = "webkit"
    /\ lastRead.writer = lastRead.reader
    /\ \E w \in Workers : wcur[w] # NoUnit /\ wcur[w].project # "webkit"
    /\ Cardinality({u \in AllUnits : u.project = "webkit" /\ u \notin pending}) >= 2

\* ------------------------------------------------------------------------
\* Claims about the checkbox units
\* ------------------------------------------------------------------------
\* Number of occurrences of event e in cevents.
CCount(e) == Cardinality({k \in 1..Len(cevents) : cevents[k] = e})

\* The checkboxes named by a selection list.
ListedBoxes(list) == {BoxOf(list[k]) : k \in 1..Len(list)}

\* C19: whatever was checked when the page loaded, no checkbox is checked
\* when the loop over the selection list starts, each listed checkbox is
\* clicked exactly once, and when the select step has ended the checked
\* checkboxes are exactly the listed ones.
C19_CheckedIsSelection ==
    /\ (cpc = "select" /\ cIdx = 1) => checked = {}
    /\ cpc = "submit" =>
          /\ checked = ListedBoxes(ccase.chk_box_selected)
          /\ \A l \in {LABEL_CHKBOX_1, LABEL_CHKBOX_2, LABEL_CHKBOX_3} :
                CCount("select " \o l) =
                    (IF BoxOf(l) \in ListedBoxes(ccase.chk_box_selected) THEN 1 ELSE 0)

C19_Witness ==
    /\ cpc = "submit"
    /\ ccase.t_case = "Select one and three"
    /\ CCount("uncheck") = 2
    /\ checked = {1, 3}

\* C20: a checkbox unit passes only if the outcome of the submit is the
\* expected one: with a non-empty selection the result shows 'Selected
\* checkboxes:' and the expected names, with the empty selection no result
\* is shown.
C20_SubmitOutcomeAsserted ==
    cverdict = "passed" =>
        IF Len(ccase.chk_box_selected) > 0
        THEN /\ Includes(chkPrefix \o chkDetail, CHK_RESULT_TXT)
             /\ Includes(chkDetail, ccase.expected_drop_box_txt)
        ELSE chkPrefix = "" /\ chkDetail = ""

\* ------------------------------------------------------------------------
\* The submit-button state suite (part_005): a dropdown with the options
\* 'disabled' and 'enabled' governs a submit input.
\* ------------------------------------------------------------------------

TXT_HEADING == "Buttons"
TXT_LABEL == "Select state"
BTN_LABEL == "Submit"
TXT_MSG_SUBMITTED == "Submitted"

\* enum BtnState
BtnState_Disabled == "Disabled"
BtnState_Enabled == "Enabled"
BtnState_Disabled_Enabled_Disabled == "Disabled to Enabled to Disabled"
BtnState_Disabled_Enabled_Disabled_Enabled ==
    "Disabled to Enabled to Disabled to Enabled"

SRow(c, t, m) == [t_case |-> c, t_type |-> t, expected_msg |-> m]

BtnCases == <<
    SRow(BtnState_Disabled, AllTiers, ""),
    SRow(BtnState_Enabled, AllTiers, TXT_MSG_SUBMITTED),
    SRow(BtnState_Disabled_Enabled_Disabled, SmokeRegr, TXT_MSG_SUBMITTED),
    SRow(BtnState_Disabled_Enabled_Disabled_Enabled, SmokeRegr, TXT_MSG_SUBMITTED) >>

BtnPath == "/elements/button/disabled"

\* What the page may show as the text of the checked option.
OptionTexts == {"Disabled", "Enabled"}

\* One awaited statement of a branch of the body.
Stmt(op, arg) == [op |-> op, arg |-> arg]

\* disable_submit_btn followed by the two assertions of its caller
DisableAndAssert ==
    << Stmt("select", "disabled"),
       Stmt("expectOption", "Disabled"),
       Stmt("expectButton", "disabled") >>

\* enable_submit_btn followed by the two assertions of its caller
EnableAndAssert ==
    << Stmt("select", "enabled"),
       Stmt("expectOption", "Enabled"),
       Stmt("expectButton", "enabled") >>

ClickAndAssert(expected_msg) ==
    << Stmt("click", ""), Stmt("expectMsg", expected_msg) >>

\* A sequence that asserts the opposite of what it selects, and clicks after
\* it has disabled the button.
disable_enable_disable_asserts_swapped(expected_msg) ==
    << Stmt("select", "disabled"),
       Stmt("expectOption", "Disabled"),
       Stmt("expectButton", "enabled"),
       Stmt("select", "enabled"),
       Stmt("expectOption", "Enabled"),
       Stmt("expectButton", "enabled"),
       Stmt("select", "disabled"),
       Stmt("click", ""),
       Stmt("expectMsg", expected_msg) >>

\* async function disable_enable_disable_submit_btn(page, expected_msg)
disable_enable_disable_submit_btn(expected_msg) ==
    DisableAndAssert \o EnableAndAssert \o ClickAndAssert(expected_msg)
        \o DisableAndAssert

\* The if / else-if chain of the body over t_case.
Branch(row) ==
    CASE row.t_case = BtnState_Disabled ->
            << Stmt("expectOption", "Disabled"),
               Stmt("expectButton", "disabled") >>
      [] row.t_case = BtnState_Enabled ->
            EnableAndAssert \o ClickAndAssert(row.expected_msg)
      [] row.t_case = BtnState_Disabled_Enabled_Disabled ->
            disable_enable_disable_submit_btn(row.expected_msg)
      [] row.t_case = BtnState_Disabled_Enabled_Disabled_Enabled ->
            disable_enable_disable_submit_btn(row.expected_msg)
                \o EnableAndAssert
      [] OTHER -> << Stmt("throw", "Unknown test case") >>

InitBtn ==
    /\ EarlyIdle
    /\ LaunchIdle
    /\ ReporterIdle
    /\ scase \in {BtnCases[i] : i \in 1..Len(BtnCases)}
    /\ spc = "goto"
    /\ sverdict = "running"
    /\ sprog = <<>>
    /\ selected = "none"
    /\ sevents = <<>>
    /\ surl = "about:blank"
    /\ sheadingOk = FALSE
    /\ slabelOk = FALSE
    /\ selectVisible = FALSE
    /\ sbtnVisible = FALSE
    /\ optionText = ""
    /\ btnDisabled = FALSE
    /\ msgVisible = FALSE

SFail ==
    /\ sverdict' = "failed"
    /\ spc' = "done"
    /\ UNCHANGED sprog

SNextStmt ==
    /\ sprog' = Tail(sprog)
    /\ UNCHANGED <<spc, sverdict>>

\* await page.goto('/elements/button/disabled')
SGoto ==
    /\ spc = "goto"
    /\ surl' = BtnPath
    /\ sheadingOk' \in BOOLEAN
    /\ slabelOk' \in BOOLEAN
    /\ selectVisible' \in BOOLEAN
    /\ sbtnVisible' \in BOOLEAN
    /\ optionText' \in OptionTexts
    /\ btnDisabled' \in BOOLEAN
    /\ msgVisible' = FALSE
    /\ spc' = "expectElements"
    /\ UNCHANGED <<scase, sverdict, sprog, selected, sevents, btnFrame>>

\* The four toBeVisible assertions of the first step: heading, label,
\* dropdown, submit input.
SExpectElements ==
    /\ spc = "expectElements"
    /\ IF sheadingOk /\ slabelOk /\ selectVisible /\ sbtnVisible
       THEN spc' = "branch" /\ UNCHANGED <<sverdict, sprog>>
       ELSE SFail
    /\ UNCHANGED <<scase, selected, sevents, spageVars, btnFrame>>

\* if (t_case === BtnState.Disabled) ... else throw new Error(...)
SBranch ==
    /\ spc = "branch"
    /\ sprog' = Branch(scase)
    /\ spc' = "run"
    /\ UNCHANGED <<scase, sverdict, selected, sevents, spageVars, btnFrame>>

\* await btn_selector.selectOption(option): the page answers with the text
\* of the checked option and the state of the submit input.
SSelect ==
    /\ spc = "run"
    /\ sprog # <<>>
    /\ Head(sprog).op = "select"
    /\ selected' = Head(sprog).arg
    /\ sevents' = Append(sevents, [kind |-> "select", state |-> Head(sprog).arg,
                                   after |-> selected])
    /\ optionText' \in OptionTexts
    /\ btnDisabled' \in BOOLEAN
    /\ SNextStmt
    /\ UNCHANGED <<scase, surl, sheadingOk, slabelOk, selectVisible, sbtnVisible,
                   msgVisible, btnFrame>>

\* await expect(btn_state.locator('option:checked')).toHaveText(text)
SExpectOption ==
    /\ spc = "run"
    /\ sprog # <<>>
    /\ Head(sprog).op = "expectOption"
    /\ IF optionText = Head(sprog).arg THEN SNextStmt ELSE SFail
    /\ UNCHANGED <<scase, selected, sevents, spageVars, btnFrame>>

\* await expect(page.locator('input', {hasText: BTN_LABEL})).toBeDisabled()
\* or .toBeEnabled()
SExpectButton ==
    /\ spc = "run"
    /\ sprog # <<>>
    /\ Head(sprog).op = "expectButton"
    /\ sevents' = Append(sevents, [kind |-> "assertBtn", state |-> Head(sprog).arg,
                                   after |-> selected])
    /\ IF btnDisabled = (Head(sprog).arg = "disabled") THEN SNextStmt ELSE SFail
    /\ UNCHANGED <<scase, selected, spageVars, btnFrame>>

\* await page.locator('input', {hasText: BTN_LABEL}).click(): the click waits
\* for the input to be enabled and times out if it stays disabled; the page
\* answers a click with whatever it shows next.
SClick ==
    /\ spc = "run"
    /\ sprog # <<>>
    /\ Head(sprog).op = "click"
    /\ sevents' = Append(sevents, [kind |-> "click", state |-> "",
                                   after |-> selected])
    /\ IF btnDisabled
       THEN /\ SFail
            /\ UNCHANGED <<optionText, btnDisabled, msgVisible>>
       ELSE /\ SNextStmt
            /\ msgVisible' \in BOOLEAN
            /\ optionText' \in OptionTexts
            /\ btnDisabled' \in BOOLEAN
    /\ UNCHANGED <<scase, selected, surl, sheadingOk, slabelOk, selectVisible,
                   sbtnVisible, btnFrame>>

\* await expect(page.locator('p', {hasText: expected_msg})).toBeVisible()
SExpectMsg ==
    /\ spc = "run"
    /\ sprog # <<>>
    /\ Head(sprog).op = "expectMsg"
    /\ IF msgVisible THEN SNextStmt ELSE SFail
    /\ UNCHANGED <<scase, selected, sevents, spageVars, btnFrame>>

\* throw new Error(`Unknown test case: ${t_case}`), or the end of the body
SFinish ==
    /\ spc = "run"
    /\ sprog # <<>> => Head(sprog).op = "throw"
    /\ sverdict' = IF sprog = <<>> THEN "passed" ELSE "failed"
    /\ spc' = "done"
    /\ UNCHANGED <<scase, sprog, selected, sevents, spageVars, btnFrame>>

NextBtn ==
    \/ SGoto
    \/ SExpectElements
    \/ SBranch
    \/ SSelect
    \/ SExpectOption
    \/ SExpectButton
    \/ SClick
    \/ SExpectMsg
    \/ SFinish

SpecBtn == InitBtn /\ [][NextBtn]_vars

\* The state a case label names last: 'enabled' when the label ends in
\* 'Enabled', 'disabled' otherwise.
EndsWith(s, suffix) ==
    /\ Len(s) >= Len(suffix)
    /\ SubSeq(s, Len(s) - Len(suffix) + 1, Len(s)) = suffix

NamedLast(label) ==
    IF EndsWith(label, "Enabled") THEN "enabled" ELSE "disabled"

IsSequenceCase(row) ==
    row.t_case \in {BtnState_Disabled_Enabled_Disabled,
                    BtnState_Disabled_Enabled_Disabled_Enabled}

SIdx(kind) == {i \in 1..Len(sevents) : sevents[i].kind = kind}

\* C21: in a unit of the submit-button state suite every assertion on the
\* button made before any selection expects it disabled (the Disabled case
\* makes that assertion, and a passing Disabled unit has made it with no
\* selection at all); every assertion made after a selection expects the
\* state just selected, and in a passing unit every selection is followed at
\* once by such an assertion; the button is clicked only while the latest
\* selection is 'enabled'; and a passing sequence case ends with the state
\* its label names last both selected and asserted.
C21_ButtonStateFollowsSelection ==
    /\ \A i \in SIdx("assertBtn") :
          sevents[i].state =
              IF sevents[i].after = "none" THEN "disabled" ELSE sevents[i].after
    /\ \A i \in SIdx("click") : sevents[i].after = "enabled"
    /\ sverdict = "passed" =>
          /\ \A i \in SIdx("select") :
                /\ i < Len(sevents)
                /\ sevents[i + 1].kind = "assertBtn"
          /\ scase.t_case = BtnState_Disabled =>
                sevents = << [kind |-> "assertBtn", state |-> "disabled",
                              after |-> "none"] >>
          /\ IsSequenceCase(scase) =>
                /\ selected = NamedLast(scase.t_case)
                /\ sevents[Len(sevents)].kind = "assertBtn"
                /\ sevents[Len(sevents)].state = NamedLast(scase.t_case)
                /\ btnDisabled = (NamedLast(scase.t_case) = "disabled")

C21_Witness ==
    /\ sverdict = "passed"
    /\ scase.t_case = BtnState_Disabled_Enabled_Disabled_Enabled
    /\ Cardinality(SIdx("select")) = 4
    /\ Cardinality(SIdx("click")) = 1
    /\ selected = "enabled"

\* ------------------------------------------------------------------------
\* The launcher script run_tests.sh (part_007, from the #!/bin/bash line).
\* A run parses its arguments, builds the runner command, sets up the
\* report directory and the configuration file, evaluates the command and
\* prints a message.
\* ------------------------------------------------------------------------

MaxOpts == 2

\* The options a command line is made of: a flag, or a flag and its value.
Options ==
    { <<"--headless">>, <<"--headed">>, <<"--ui">>, <<"--ortoni-report">>,
      <<"--bogus">>,
      <<"--suite">>, <<"--suite", "tests/alerts">>,
      <<"--type", "sanity">>, <<"--type", "smoke">>, <<"--type", "regression">>,
      <<"--type", "fast">>,
      <<"--project", "chromium">>, <<"--project", "safari">>,
      <<"--workers", "4">>, <<"--workers", "-1">> }

OptLists == UNION {[1..n -> Options] : n \in 0..MaxOpts}

RECURSIVE Flatten(_)
Flatten(os) == IF os = <<>> THEN <<>> ELSE Head(os) \o Flatten(Tail(os))

\* PROJECT and WORKERS are not assigned before the parse loop: the script
\* starts with whatever its environment exports under these names.
Envs ==
    { [PROJECT |-> p, WORKERS |-> w, dirs |-> d] :
        p \in {"", "firefox"}, w \in {"", "8"},
        d \in {{}, {"playwright-report", "ortoni-report"}} }

\* # Default values
Defaults(e) ==
    [HEADLESS |-> "true", UI_MODE |-> "false", TEST_SUITE |-> "",
     TEST_TYPE |-> "sanity_smoke_regression", ORTONI_REPORT |-> "false",
     PROJECT |-> e.PROJECT, WORKERS |-> e.WORKERS]

Digits == {"0", "1", "2", "3", "4", "5", "6", "7", "8", "9"}

IsValidType(t) == t \in {"sanity", "regression", "smoke"}
IsValidProject(p) == p \in {"chromium", "firefox", "webkit"}

IsIntegerAlways(w) == TRUE

\* [[ "$WORKERS" =~ ^[0-9]+$ ]]
IsInteger(w) ==
    /\ Len(w) >= 1
    /\ \A i \in 1..Len(w) : SubSeq(w, i, i) \in Digits

Shift(args, n) == SubSeq(args, n + 1, Len(args))

\* One turn of the while loop over "$@": [sh, rest, status], status 1 when
\* the turn ends in exit 1.
ParseArg(v, args) ==
    LET a1 == args[1]
        a2 == IF Len(args) >= 2 THEN args[2] ELSE ""
        Go(w, n) == [sh |-> w, rest |-> Shift(args, n), status |-> 0]
        Exit1(w) == [sh |-> w, rest |-> args, status |-> 1]
        Checked(w, ok) == IF ok THEN Go(w, 2) ELSE Exit1(w)
    IN  CASE a1 = "--headless" -> Go([v EXCEPT !.HEADLESS = "true"], 1)
          [] a1 = "--headed" -> Go([v EXCEPT !.HEADLESS = "false"], 1)
          [] a1 = "--ui" -> Go([v EXCEPT !.UI_MODE = "true"], 1)
          [] a1 = "--suite" -> Checked([v EXCEPT !.TEST_SUITE = a2], a2 # "")
          [] a1 = "--type" ->
                Checked([v EXCEPT !.TEST_TYPE = a2], IsValidType(a2))
          [] a1 = "--project" ->
                Checked([v EXCEPT !.PROJECT = a2], IsValidProject(a2))
          [] a1 = "--workers" ->
                Checked([v EXCEPT !.WORKERS = a2], IsInteger(a2))
          [] a1 = "--ortoni-report" -> Go([v EXCEPT !.ORTONI_REPORT = "true"], 1)
          [] OTHER -> Exit1(v)

\* The whole loop.
RECURSIVE ParseAll(_, _)
ParseAll(v, args) ==
    IF args = <<>>
    THEN [sh |-> v, rest |-> args, status |-> 0]
    ELSE LET r == ParseArg(v, args)
         IN  IF r.status = 1 THEN r ELSE ParseAll(r.sh, r.rest)

\* A build that leaves the type filter out.
BuildCmdNoGrep(v) ==
    "npx playwright test"
        \o (IF v.HEADLESS = "false" THEN " --headed" ELSE "")
        \o (IF v.UI_MODE = "true" THEN " --ui" ELSE "")
        \o (IF v.TEST_SUITE # "" THEN " " \o v.TEST_SUITE ELSE "")
        \o (IF v.PROJECT # "" THEN " --project=" \o v.PROJECT ELSE "")
        \o (IF v.WORKERS # "" THEN " --workers=" \o v.WORKERS ELSE "")

\* # Build the command
BuildCmd(v) ==
    "npx playwright test"
        \o (IF v.HEADLESS = "false" THEN " --headed" ELSE "")
        \o (IF v.UI_MODE = "true" THEN " --ui" ELSE "")
        \o (IF v.TEST_SUITE # "" THEN " " \o v.TEST_SUITE ELSE "")
        \o (IF v.TEST_TYPE # "" /\ v.TEST_TYPE # "sanity_smoke_regression"
            THEN " --grep " \o v.TEST_TYPE ELSE "")
        \o (IF v.PROJECT # "" THEN " --project=" \o v.PROJECT ELSE "")
        \o (IF v.WORKERS # "" THEN " --workers=" \o v.WORKERS ELSE "")

\* # Change case of test type
ChangeCase(t) ==
    CASE t = "sanity" -> "Sanity"
      [] t = "regression" -> "Regression"
      [] t = "smoke" -> "Smoke"
      [] t = "sanity_smoke_regression" -> "Sanity_Smoke_Regression"
      [] OTHER -> t

\* A report directory named after the type as the report titles spell it.
ReportDirCapitalised(v) ==
    IF v.ORTONI_REPORT = "true"
    THEN IF v.TEST_TYPE # "sanity_smoke_regression"
         THEN "ortoni-report" \o "/" \o ChangeCase(v.TEST_TYPE)
         ELSE "ortoni-report"
    ELSE "playwright-report"

\* REPORT_DIR as the two branches of the set-up assign it
ReportDir(v) ==
    IF v.ORTONI_REPORT = "true"
    THEN IF v.TEST_TYPE # "sanity_smoke_regression"
         THEN "ortoni-report" \o "/" \o v.TEST_TYPE
         ELSE "ortoni-report"
    ELSE "playwright-report"

\* mkdir -p: the directory and the directories above it
RECURSIVE SlashAt(_, _)
SlashAt(d, i) ==
    IF i > Len(d) THEN 0
    ELSE IF SubSeq(d, i, i) = "/" THEN i ELSE SlashAt(d, i + 1)

MkdirP(d) ==
    IF SlashAt(d, 1) = 0 THEN {d} ELSE {SubSeq(d, 1, SlashAt(d, 1) - 1), d}

\* The three lines of the Ortoni configuration the script rewrites, and the
\* configuration files as the repository holds them.
OrtoniConfig0 ==
    [reporter |-> "ortoni", folderPath |-> "ortoni-report",
     title |-> "Sanity+Smoke+Regression Test Report",
     testType |-> "Sanity+Smoke+Regression Test"]

HtmlConfig ==
    [reporter |-> "html", folderPath |-> "", title |-> "", testType |-> ""]

InitLaunch ==
    /\ EarlyIdle
    /\ BtnIdle
    /\ ReporterIdle
    /\ env \in Envs
    /\ opts \in OptLists
    /\ rest = Flatten(opts)
    /\ lpc = "parse"
    /\ sh = Defaults(env)
    /\ NPX_CMD = ""
    /\ REPORT_DIR = ""
    /\ dirs = env.dirs
    /\ ortoniConfig = OrtoniConfig0
    /\ activeConfig = OrtoniConfig0
    /\ runnerStatus = <<>>
    /\ output = ""
    /\ exitCode = <<>>

\* while [[ $# -gt 0 ]]; do case $1 in ... esac; done -- one turn
LParse ==
    /\ lpc = "parse"
    /\ rest # <<>>
    /\ LET r == ParseArg(sh, rest)
       IN  /\ sh' = r.sh
           /\ rest' = r.rest
           /\ IF r.status = 1
              THEN lpc' = "exited" /\ exitCode' = <<1>>
              ELSE UNCHANGED <<lpc, exitCode>>
    /\ UNCHANGED <<env, opts, NPX_CMD, REPORT_DIR, dirs, ortoniConfig,
                   activeConfig, runnerStatus, output, launchFrame>>

\* # Build the command
LBuild ==
    /\ lpc = "parse"
    /\ rest = <<>>
    /\ NPX_CMD' = BuildCmd(sh)
    /\ lpc' = "report"
    /\ UNCHANGED <<env, opts, rest, sh, REPORT_DIR, dirs, ortoniConfig,
                   activeConfig, runnerStatus, output, exitCode, launchFrame>>

\* # Set-up report directory and use correct config
LReport ==
    /\ lpc = "report"
    /\ REPORT_DIR' = ReportDir(sh)
    /\ dirs' = IF ReportDir(sh) \in dirs THEN dirs ELSE dirs \cup MkdirP(ReportDir(sh))
    /\ IF sh.ORTONI_REPORT = "true"
       THEN /\ sh' = [sh EXCEPT !.TEST_TYPE = ChangeCase(sh.TEST_TYPE)]
            /\ ortoniConfig' =
                  [ortoniConfig EXCEPT
                      !.folderPath = ReportDir(sh),
                      !.title = ChangeCase(sh.TEST_TYPE) \o " Test Report",
                      !.testType = ChangeCase(sh.TEST_TYPE) \o " Test"]
            /\ activeConfig' = ortoniConfig'
       ELSE /\ activeConfig' = HtmlConfig
            /\ UNCHANGED <<sh, ortoniConfig>>
    /\ lpc' = "run"
    /\ UNCHANGED <<env, opts, rest, NPX_CMD, runnerStatus, output, exitCode,
                   launchFrame>>

\* eval $NPX_CMD: the runner ends with status 0 when every selected unit
\* passed and with a non-zero status otherwise.
LRun ==
    /\ lpc = "run"
    /\ runnerStatus' \in {<<0>>, <<1>>}
    /\ lpc' = "message"
    /\ UNCHANGED <<env, opts, rest, sh, NPX_CMD, REPORT_DIR, dirs, ortoniConfig,
                   activeConfig, output, exitCode, launchFrame>>

\* if [ $? -eq 0 ]; then echo ...; else echo ...; fi; echo "-----": the
\* script ends here, with the status of its last command, the echo.
LMessage ==
    /\ lpc = "message"
    /\ output' = IF runnerStatus = <<0>>
                 THEN "Tests executed successfully."
                 ELSE "There was an error executing the tests."
    /\ exitCode' = <<0>>
    /\ lpc' = "exited"
    /\ UNCHANGED <<env, opts, rest, sh, NPX_CMD, REPORT_DIR, dirs, ortoniConfig,
                   activeConfig, runnerStatus, launchFrame>>

NextLaunch ==
    \/ LParse
    \/ LBuild
    \/ LReport
    \/ LRun
    \/ LMessage

SpecLaunch == InitLaunch /\ [][NextLaunch]_vars

\* C22: the exit status of the launcher script is 0 exactly when the runner
\* command ended with status 0.
C22_ExitCodeMirrorsRunner ==
    (lpc = "exited" /\ runnerStatus # <<>>) =>
        ((exitCode = <<0>>) <=> (runnerStatus = <<0>>))

\* ------------------------------------------------------------------------
\* The test units of the repository and the runner's tier filter
\* ------------------------------------------------------------------------

\* A simple button table whose only row is tagged sanity alone.
SimpleBtnCasesSanityOnly ==
    << SRow("Submitted", <<Sanity>>, TXT_MSG_SUBMITTED) >>

\* part_006: the case table of the simple button suite
SimpleBtnCases == << SRow("Submitted", AllTiers, TXT_MSG_SUBMITTED) >>

\* Every case table with the title prefix its forEach callback gives to test().
CaseTables ==
    { [prefix |-> "Simple input field : ", rows |-> TextCases],
      [prefix |-> "Email address input : ", rows |-> EmailCases],
      [prefix |-> "Password input : ", rows |-> PasswdCases],
      [prefix |-> "Drag and drop box test : ", rows |-> BoxCases],
      [prefix |-> "Drag and drop image test : ", rows |-> ImageCases],
      [prefix |-> "Alert Confirmation test : ", rows |-> ConfirmCases],
      [prefix |-> "Alert Prompt test : ", rows |-> PromptCases],
      [prefix |-> "Checkbox test : ", rows |-> ChkCases],
      [prefix |-> "Submit button state test : ", rows |-> BtnCases],
      [prefix |-> "Simple button test : ", rows |-> SimpleBtnCases] }

\* test(prefix + t_case, { tag: [ getTestType(t_type) ] }, ...)
TestUnit(T, i) ==
    [title |-> T.prefix \o T.rows[i].t_case,
     tiers |-> {T.rows[i].t_type[k] : k \in 1..Len(T.rows[i].t_type)},
     tag |-> getTestType(JsArray(T.rows[i].t_type)).value]

SuiteUnits == UNION { {TestUnit(T, i) : i \in 1..Len(T.rows)} : T \in CaseTables }

\* eval $NPX_CMD: the command is split into words at its blanks.
RECURSIVE Words(_)
Words(cmd) ==
    LET RECURSIVE BlankAt(_)
        BlankAt(i) == IF i > Len(cmd) THEN 0
                      ELSE IF SubSeq(cmd, i, i) = " " THEN i ELSE BlankAt(i + 1)
        b == BlankAt(1)
    IN  IF cmd = "" THEN <<>>
        ELSE IF b = 0 THEN <<cmd>>
        ELSE IF b = 1 THEN Words(SubSeq(cmd, 2, Len(cmd)))
        ELSE <<SubSeq(cmd, 1, b - 1)>> \o Words(SubSeq(cmd, b + 1, Len(cmd)))

\* The runner's --grep option: the word after it, <<>> when it is not given.
RunnerGrep(cmd) ==
    LET w == Words(cmd)
        at == {i \in 1..(Len(w) - 1) : w[i] = "--grep"}
    IN  IF at = {} THEN <<>>
        ELSE <<w[(CHOOSE i \in at : \A j \in at : j <= i) + 1]>>

\* The runner matches the pattern against a unit's title followed by its
\* tags.  (It ignores letter case; no title of the repository holds a tier
\* label in any letter case, and tags and labels are lower case.)
GrepSelects(pattern, u) == Includes(u.title \o " " \o u.tag, pattern)

Selected(cmd) ==
    IF RunnerGrep(cmd) = <<>> THEN SuiteUnits
    ELSE {u \in SuiteUnits : GrepSelects(RunnerGrep(cmd)[1], u)}

\* The value --suite takes is the next argument whatever it is: an option
\* that follows a valueless --suite is that value and is not parsed.
RECURSIVE Eaten(_, _)
Eaten(os, i) == i > 1 /\ os[i - 1] = <<"--suite">> /\ ~Eaten(os, i - 1)

Parsed(os) == {i \in 1..Len(os) : ~Eaten(os, i)}

\* The value of the last --type option of a command line, "" without one.
LastType(os) ==
    LET at == {i \in Parsed(os) : os[i][1] = "--type"}
    IN  IF at = {} THEN ""
        ELSE os[CHOOSE i \in at : \A j \in at : j <= i][2]

RunnerStarted == runnerStatus # <<>>

\* C23: when the runner is started for a command line with --type T, the
\* filter it receives is the lower-case label T, with or without
\* --ortoni-report, and the filter selects exactly the units whose tier set
\* contains T; without --type it receives no filter and every unit is
\* selected.
C23_TypeSelectsTier ==
    RunnerStarted =>
        LET T == LastType(opts) IN
          IF T = ""
          THEN /\ RunnerGrep(NPX_CMD) = <<>>
               /\ Selected(NPX_CMD) = SuiteUnits
          ELSE /\ T \in TestType
               /\ RunnerGrep(NPX_CMD) = <<T>>
               /\ Selected(NPX_CMD) = {u \in SuiteUnits : T \in u.tiers}

C23_Witness ==
    /\ RunnerStarted
    /\ sh.ORTONI_REPORT = "true"
    /\ sh.TEST_TYPE = "Smoke"
    /\ RunnerGrep(NPX_CMD) = <<"smoke">>
    /\ Selected(NPX_CMD) # SuiteUnits
    /\ \E u \in Selected(NPX_CMD) : Sanity \notin u.tiers

KnownFlags ==
    {"--headless", "--headed", "--ui", "--suite", "--type", "--project",
     "--workers", "--ortoni-report"}

DenotesNatural(w) == \E n \in 0..99 : ToString(n) = w

\* An option the script is to reject: an unknown flag, a --type, --project
\* or --workers with a value outside its domain, a --suite with nothing
\* after it.
BadOption(os, i) ==
    LET flag == os[i][1]
        val == IF Len(os[i]) = 2 THEN os[i][2] ELSE ""
    IN  \/ flag \notin KnownFlags
        \/ flag = "--type" /\ val \notin {"sanity", "smoke", "regression"}
        \/ flag = "--project" /\ val \notin {"chromium", "firefox", "webkit"}
        \/ flag = "--workers" /\ ~DenotesNatural(val)
        \/ flag = "--suite" /\ val = "" /\ i = Len(os)

Rejectable(os) == \E i \in Parsed(os) : BadOption(os, i)

OrtoniGiven(os) == \E i \in Parsed(os) : os[i] = <<"--ortoni-report">>

ReportSetUp == lpc \in {"run", "message"} \/ (lpc = "exited" /\ RunnerStarted)

\* C25: once the report set-up is done - so when the runner is started and
\* from then on - REPORT_DIR is playwright-report without --ortoni-report,
\* ortoni-report with --ortoni-report and no --type, and ortoni-report/T with
\* --ortoni-report and --type T, and that directory exists.
C25_ReportDirectory ==
    ReportSetUp =>
        /\ REPORT_DIR =
              IF ~OrtoniGiven(opts) THEN "playwright-report"
              ELSE IF LastType(opts) = "" THEN "ortoni-report"
              ELSE "ortoni-report/" \o LastType(opts)
        /\ REPORT_DIR \in dirs

C25_Witness ==
    /\ lpc = "run"
    /\ ~RunnerStarted
    /\ env.dirs = {}
    /\ OrtoniGiven(opts)
    /\ LastType(opts) = "regression"
    /\ REPORT_DIR = "ortoni-report/regression"
    /\ dirs = {"ortoni-report", "ortoni-report/regression"}

\* ------------------------------------------------------------------------
\* get_bounding_box_info: the copy inside the box suite (part_003) and the
\* shared helper (part_004) imported by the image suite.
\* ------------------------------------------------------------------------

\* What the locator matches when the call starts: no element, an element
\* that is attached but not rendered (boundingBox() gives null), or a
\* rendered element.  rect is what getBoundingClientRect() gives.
Absent == [state |-> "absent", rect |-> Null]
Hidden == [state |-> "hidden", rect |-> Box(0, 0, 0, 0)]
Rendered(b) == [state |-> "rendered", rect |-> b]

Elements ==
    {Absent, Hidden}
      \cup {Rendered(Box(x, y, w, h)) : x \in Coords, y \in Coords,
                                        w \in Sizes, h \in Sizes}

ReporterLabels(copy) ==
    IF copy = "box suite" THEN {LABEL_DROP_BOX, LABEL_DRAG_BOX}
    ELSE {"#rect-droppable1", "#rect-droppable2"}

ERR_TIMEOUT == "TimeoutError: locator.elementHandle: Timeout exceeded"

\* locator.elementHandle() waits for a matching element to be attached and
\* throws when its timeout passes without one; its declared result type
\* also admits null.
HandleOutcomes(e) ==
    IF e.state = "absent" THEN {"null", ERR_TIMEOUT} ELSE {"handle"}

\* Number.prototype.toFixed(1) of a whole number
ToFixed1(n) == ToString(n) \o ".0"

Dimensions(b) ==
    " -> x:" \o ToFixed1(b.x) \o " y:" \o ToFixed1(b.y)
        \o " | dimensions -> width:" \o ToFixed1(b.width)
        \o " height:" \o ToFixed1(b.height)

BoundingBoxLine(label, b) ==
    label \o " bounding box top left location 1" \o Dimensions(b)

\* The copy in the box suite spells the line 'top lect'.
RectangleLine(copy, label, b) ==
    label \o (IF copy = "box suite" THEN " rectangle top lect location"
              ELSE " rectangle top left location") \o Dimensions(b)

NotFoundLine(label) == label \o " box not found"

InitReporter ==
    /\ EarlyIdle
    /\ BtnIdle
    /\ LaunchIdle
    /\ rcopy \in {"box suite", "helper"}
    /\ rlabel \in ReporterLabels(rcopy)
    /\ relem \in Elements
    /\ rpc = "elementHandle"
    /\ element_handler = "unset"
    /\ element_bb = Null
    /\ rlog = <<>>
    /\ rerror = NoError

\* let element_handler = await element.elementHandle();
RElementHandle ==
    /\ rpc = "elementHandle"
    /\ \E o \in HandleOutcomes(relem) :
         IF o \in {"handle", "null"}
         THEN /\ element_handler' = o
              /\ rpc' = IF o = "handle" THEN "boundingBox" ELSE "notFound"
              /\ UNCHANGED rerror
         ELSE /\ rerror' = o
              /\ rpc' = "thrown"
              /\ UNCHANGED element_handler
    /\ UNCHANGED <<rcopy, rlabel, relem, element_bb, rlog, reporterFrame>>

\* let element_bb = await element_handler.boundingBox();
RBoundingBox ==
    /\ rpc = "boundingBox"
    /\ element_bb' = IF relem.state = "rendered" THEN relem.rect ELSE Null
    /\ rpc' = IF relem.state = "rendered" THEN "logBox" ELSE "logRect"
    /\ UNCHANGED <<rcopy, rlabel, relem, element_handler, rlog, rerror,
                   reporterFrame>>

\* console.log(label + ` bounding box top left location 1 -> ...`)
RLogBoundingBox ==
    /\ rpc = "logBox"
    /\ rlog' = Append(rlog, BoundingBoxLine(rlabel, element_bb))
    /\ rpc' = "returned"
    /\ UNCHANGED <<rcopy, rlabel, relem, element_handler, element_bb, rerror,
                   reporterFrame>>

\* element_handler.evaluate(el => el.getBoundingClientRect() ...) and
\* console.log(label + ` rectangle top left location -> ...`)
RLogRectangle ==
    /\ rpc = "logRect"
    /\ rlog' = Append(rlog, RectangleLine(rcopy, rlabel, relem.rect))
    /\ rpc' = "returned"
    /\ UNCHANGED <<rcopy, rlabel, relem, element_handler, element_bb, rerror,
                   reporterFrame>>

\* console.log(label + ' box not found')
RLogNotFound ==
    /\ rpc = "notFound"
    /\ rlog' = Append(rlog, NotFoundLine(rlabel))
    /\ rpc' = "returned"
    /\ UNCHANGED <<rcopy, rlabel, relem, element_handler, element_bb, rerror,
                   reporterFrame>>

NextReporter ==
    \/ RElementHandle
    \/ RBoundingBox
    \/ RLogBoundingBox
    \/ RLogRectangle
    \/ RLogNotFound

SpecReporter == InitReporter /\ [][NextReporter]_vars

\* C26: a call of get_bounding_box_info ends by returning to its caller,
\* having written exactly one line: the bounding-box line for a rendered
\* element, the rectangle line for an element without a bounding box, the
\* 'box not found' line when the locator matches no element; it never ends
\* by throwing into the calling unit.
C26_OneLineAndNoFailure ==
    /\ rpc # "thrown"
    /\ rerror = NoError
    /\ rpc = "returned" =>
          /\ Len(rlog) = 1
          /\ relem.state = "rendered" => Includes(rlog[1], " bounding box ")
          /\ relem.state = "hidden" => Includes(rlog[1], " rectangle ")
          /\ relem.state = "absent" => rlog[1] = NotFoundLine(rlabel)

HookFinished ==
    cevents # <<>> /\ cevents[Len(cevents)] = "afterEach finished"

\* The checkboxes the hook clicks in a step.
HookClicks ==
    {k \in Boxes : \E i \in (Len(cevents) + 1)..Len(cevents') :
                      cevents'[i] = UncheckEvent(k)}

\* C27: when the afterEach hook of the checkbox suite has run to its end no
\* checkbox is checked, whatever the body left checked, and the hook clicks
\* no checkbox that is unchecked when the hook comes to it.
C27_HookLeavesAllUnchecked ==
    /\ [](HookFinished => checked = {})
    /\ [][HookClicks \subseteq checked]_vars

\* The hook started with all three checkboxes checked and unchecked each.
C27_Witness ==
    /\ HookFinished
    /\ checked = {}
    /\ \A k \in Boxes : CCount(UncheckEvent(k)) = 1

\* ------------------------------------------------------------------------
\* Loading the suite modules with the case tables as they are written
\* ------------------------------------------------------------------------

\* The rows of a case table as forEach hands them to the callback: the
\* t_type literal is a JavaScript array.
AsLoaded(rows) ==
    [i \in 1..Len(rows) |->
        [t_case |-> rows[i].t_case, t_type |-> JsArray(rows[i].t_type)]]

InitRegTables ==
    /\ table \in {AsLoaded(T.rows) : T \in CaseTables}
    /\ RegStart
    /\ MoreIdle
    /\ InputIdle
    /\ DragIdle

SpecRegTables == InitRegTables /\ [][NextReg]_vars

TierSet(row) == {row.t_type.items[k] : k \in 1..Len(row.t_type.items)}

\* C28: in every case table every row's tier set is non-empty, holds only
\* sanity, smoke and regression, and is nested (sanity implies smoke, smoke
\* implies regression); loading the module therefore never throws the tier
\* precondition error, every row is registered, and the filter 'regression'
\* selects every registered unit.
C28_TierSetsNested ==
    /\ \A i \in 1..Len(table) :
          /\ IsArray(table[i].t_type)
          /\ TierSet(table[i]) # {}
          /\ TierSet(table[i]) \subseteq TestType
          /\ Sanity \in TierSet(table[i]) => Smoke \in TierSet(table[i])
          /\ Smoke \in TierSet(table[i]) => Regression \in TierSet(table[i])
    /\ loadError = NoError
    /\ loadPhase # "aborted"
    /\ loadPhase = "loaded" => Len(registered) = Len(table)
    /\ \A k \in 1..Len(registered) :
          GrepSelects(Regression, [title |-> registered[k].title,
                                   tag |-> registered[k].tag])

C28_Witness ==
    /\ loadPhase = "loaded"
    /\ Len(registered) = Len(table)
    /\ Len(table) > 1
    /\ ran = 1..Len(table)
    /\ \E i \in 1..Len(table) : TierSet(table[i]) = {Regression}
    /\ \E i \in 1..Len(table) : TierSet(table[i]) = TestType

\* ------------------------------------------------------------------------
\* A drag-and-drop unit on a page that can hide the drop target by itself
\* ------------------------------------------------------------------------

\* The image suite asserts box 2 visible before it measures it, so the
\* measurement fails there only when the page hides the box in between.
HideDropBox ==
    /\ dsuite = "image"
    /\ dpc = "branch"
    /\ dropBoxVisible
    /\ dropBoxVisible' = FALSE
    /\ UNCHANGED <<dunitVars, durl, headingOk, dragLabelOk, box1Visible, imgLoc,
                   dropLabel, labelHistory, dragFrame>>

NextDragHidden == NextDrag \/ HideDropBox

SpecDragHidden == InitDrag /\ [][NextDragHidden]_vars

\* A negative unit that measured the drop target and got no bounding box:
\* the box suite is at or past its label assertion, the image suite at or
\* past its switch.
GeometryMissing ==
    /\ ~dcase.is_positive
    /\ ~dropBoxVisible
    /\ IF dsuite = "box"
       THEN \/ dpc = "expectLabel"
            \/ dpc = "done" /\ CountEvents("expectText", Len(events)) > 0
       ELSE \/ dpc \in {"loopTest", "fwd", "back", "loopNext"}
            \/ dpc = "done" /\ loopI > 0

\* C29: in a negative unit whose drop target has no bounding box no forward
\* drag is made; the box suite still makes its label assertion, which
\* expects 'Drop here' and finds the label as it was; the image suite's
\* loop-back case has made its return drag once per repetition when it
\* ends; and the unit does not fail.
C29_NoForwardDragWithoutBox ==
    GeometryMissing =>
        /\ ~target
        /\ CountEvents("fwd", Len(events)) = 0
        /\ dverdict # "failed"
        /\ dsuite = "box" =>
              /\ dcase.expected_drop_box_txt = LABEL_DROP_BOX
              /\ dropLabel = LABEL_DROP_BOX
              /\ dpc = "done" => dverdict = "passed"
        /\ dsuite = "image" =>
              /\ CountEvents("back", Len(events)) =
                    IF ~dcase.is_loop_back THEN 0
                    ELSE IF dpc \in {"loopTest", "fwd", "back"} THEN loopI
                    ELSE IF dpc = "loopNext" THEN loopI + 1
                    ELSE dcase.repeat + 1
              /\ dpc = "done" => dverdict = "passed"

C29_Witness ==
    /\ GeometryMissing
    /\ dsuite = "image"
    /\ dcase.is_loop_back
    /\ dcase.repeat = 2
    /\ dpc = "done"
    /\ dverdict = "passed"
    /\ CountEvents("back", Len(events)) = 3

\* ------------------------------------------------------------------------
\* The runner command as a function of the command line
\* ------------------------------------------------------------------------

\* A command line of complete, valid options.
WellFormed(os) ==
    \A i \in 1..Len(os) : os[i] # <<"--suite">> /\ ~BadOption(os, i)

OptionSet(os) == {os[i] : i \in 1..Len(os)}

\* The later of --headless and --headed on a command line, "" without one.
LastHead(os) ==
    LET at == {i \in 1..Len(os) : os[i] \in {<<"--headless">>, <<"--headed">>}}
    IN  IF at = {} THEN ""
        ELSE os[CHOOSE i \in at : \A j \in at : j <= i][1]

\* The command the script builds for a command line in an environment.
CommandFor(e, os) == BuildCmd(ParseAll(Defaults(e), Flatten(os)).sh)

StartsWith(s, prefix) ==
    Len(s) >= Len(prefix) /\ SubSeq(s, 1, Len(prefix)) = prefix

\* The place of a word of the command in the order headed flag, UI flag,
\* suite, type filter, project, worker count.
WordRank(w, i) ==
    IF w[i] = "--headed" THEN 1
    ELSE IF w[i] = "--ui" THEN 2
    ELSE IF w[i] = "--grep" THEN 4
    ELSE IF w[i - 1] = "--grep" THEN 5
    ELSE IF StartsWith(w[i], "--project=") THEN 6
    ELSE IF StartsWith(w[i], "--workers=") THEN 7
    ELSE 3

\* C30: the runner command built for a command line of valid options is the
\* one built for any other command line with the same set of options and
\* the same later one of --headless / --headed, whatever else differs; its
\* words after 'npx playwright test' come in the order headed flag, UI flag,
\* suite, type filter, project, worker count; and it holds --headed exactly
\* when --headed is the later of --headless and --headed.
C30_CommandDependsOnOptionSetOnly ==
    (NPX_CMD # "" /\ WellFormed(opts)) =>
        LET w == Words(NPX_CMD) IN
        /\ \A i \in 4..Len(w) : \A j \in (i + 1)..Len(w) :
              WordRank(w, i) < WordRank(w, j)
        /\ (LastHead(opts) = "--headed") <=> (\E i \in 4..Len(w) : w[i] = "--headed")
        /\ \A os \in OptLists : \A e \in Envs :
              (OptionSet(os) = OptionSet(opts) /\ LastHead(os) = LastHead(opts))
                  => CommandFor(e, os) = NPX_CMD

====
